---- MODULE Spec2Model ----
(***************************************************************************)
(* A model of the jobsuche client library: the request executor with its  *)
(* retry loop (Jobsuche::get, src/src/sync.rs), the error classifiers of  *)
(* the blocking and the non-blocking client (error_from_status in          *)
(* src/src/sync.rs and src/src/async_client.rs), the lazy pagination       *)
(* engine JobIterator (src/src/pagination.rs) and the eager Search::iter   *)
(* (src/src/search.rs).                                                    *)
(*                                                                         *)
(* Durations are whole seconds.  The wall clock read by the classifier is  *)
(* counted in ticks, TicksPerSec ticks to a second, because the clock is   *)
(* finer than the one-second resolution of an HTTP date.                   *)
(***************************************************************************)
EXTENDS Integers, Sequences, FiniteSets, TLC

VARIABLES
    retry_enabled,   \* ClientConfig.retry_enabled
    max_retries,     \* ClientConfig.max_retries
    pc,              \* where the logical request Jobsuche::get stands
    attempt,         \* the local `attempt` of Jobsuche::get
    backoff_iter,    \* the local `backoff_iter` of Jobsuche::get
    delay,           \* the duration handed to thread::sleep
    last,            \* ghost: what the latest get_once call produced
    calls,           \* ghost: number of get_once calls of this request
    sleeps,          \* ghost: number of completed thread::sleep calls
    ret,             \* ghost: the results handed to the caller, in order
    exit,            \* ghost: the return site get left through
    cl_in,           \* classifier run: the transport outcome classified
    cl_sync,         \* classifier run: what Jobsuche::get_once produced
    cl_async,        \* classifier run: what JobsucheAsync::get produced
    page_size,       \* JobIterator.page_size
    current_page,    \* JobIterator.current_page
    current_page_jobs, \* JobIterator.current_page_jobs
    current_index,   \* JobIterator.current_index
    finished,        \* JobIterator.finished
    max_results,     \* JobIterator.max_results, an Option: {} or {n}
    total_yielded,   \* JobIterator.total_yielded
    it_out,          \* ghost: what the latest call of next() returned
    it_log,          \* ghost: the page fetches issued, in order
    it_yielded,      \* ghost: the items next() handed out as Some(Ok(_))
    it_fetches,      \* ghost: number of page fetches issued
    co_pc,           \* where the collect of Search::iter stands
    co_vec,          \* the vector collect is building
    co_result,       \* what Search::iter returned
    requests,        \* ghost: the requests this client completed before
    other,           \* the fields of a second JobIterator of the same client
    answers,         \* ghost: what the server answered, by page number
    b_params,        \* SearchOptionsBuilder.params, in the order of the map
    b_latest,        \* ghost: the latest value assigned to each name
    b_count,         \* ghost: number of calls on builders and built values
    b_last,          \* ghost: the latest call on the builder, with its argument
    o_params,        \* params of the SearchOptions built, an Option
    o_snapshot,      \* ghost: params of the SearchOptions when it was built
    r_in,            \* the reference number handed to encode_refnr
    r_enc,           \* what encode_refnr returned, an Option
    r_dec            \* what decode_refnr returned for it, an Option

vars == <<retry_enabled, max_retries, pc, attempt, backoff_iter, delay, last,
          calls, sleeps, ret, exit, cl_in, cl_sync, cl_async,
          page_size, current_page, current_page_jobs, current_index, finished,
          max_results, total_yielded, it_out, it_log, it_yielded, it_fetches,
          co_pc, co_vec, co_result, requests, other, answers, b_params,
          b_latest, b_count, b_last, o_params, o_snapshot, r_in, r_enc, r_dec>>

get_vars == <<retry_enabled, max_retries, pc, attempt, backoff_iter, delay,
              last, calls, sleeps, ret, exit, requests>>

cl_vars == <<cl_in, cl_sync, cl_async>>

it_vars == <<page_size, current_page, current_page_jobs, current_index,
             finished, max_results, total_yielded, it_out, it_log, it_yielded,
             it_fetches>>

co_vars == <<co_pc, co_vec, co_result>>

pair_vars == <<other, answers>>

b_vars == <<b_params, b_latest, b_count, b_last, o_params, o_snapshot>>

r_vars == <<r_in, r_enc, r_dec>>

---------------------------------------------------------------------------
(* Bounds of the exploration. *)

\* the largest ClientConfig.max_retries explored
MaxRetriesBound == 3

\* longest backoff schedule stepped through on its own (max_times)
MaxTimesBound == 13

\* the largest Retry-After value, in seconds (delay-seconds or HTTP date)
MaxSecs == 2

\* clock ticks per second
TicksPerSec == 2

\* the latest clock reading explored, in ticks
MaxNowTicks == 4

---------------------------------------------------------------------------
(* Program constants. *)

UNAUTHORIZED == 401

FORBIDDEN == 403

NOT_FOUND == 404

METHOD_NOT_ALLOWED == 405

TOO_MANY_REQUESTS == 429

SERVICE_UNAVAILABLE == 503

GATEWAY_TIMEOUT == 504

\* ExponentialBuilder::default(): first delay of one second
MinDelaySecs == 1

\* ExponentialBuilder::default(): each delay doubles the one before
BackoffFactor == 2

\* .with_max_delay(Duration::from_secs(60))
MaxDelaySecs == 60

Min(a, b) == IF a <= b THEN a ELSE b

---------------------------------------------------------------------------
(* Transport outcomes: what one HTTP GET can come back with. *)

\* the status codes explored: 2xx, a 3xx, and the 4xx and 5xx the code names,
\* with one further code of each class
Statuses == {200, 204, 304, 400, 401, 403, 404, 405, 429, 500, 503, 504}

\* the Retry-After header of the response: absent, delay-seconds, an HTTP
\* date (in seconds), text that is neither, or bytes that are no visible ASCII
RetryAfterHeaders ==
    {[tag |-> "absent", v |-> 0], [tag |-> "junk", v |-> 0],
     [tag |-> "opaque", v |-> 0]}
    \cup [tag : {"secs", "date"}, v : 0..MaxSecs]

\* the body: a JSON object that decodes as the payload type T, a JSON object
\* carrying error messages, or anything that parses as neither (plain text,
\* an empty body, a body that cannot be read)
Bodies == {"payload", "errors", "text"}

\* send() succeeded with a response, or failed (connection refused, timeout)
Nets == {"resp", "refused", "timeout"}

Outcomes ==
    [net : {"resp"}, status : Statuses, header : RetryAfterHeaders,
     body : Bodies, now : 0..MaxNowTicks]
    \cup [net : {"refused", "timeout"}, status : {0},
          header : {[tag |-> "absent", v |-> 0]}, body : {"text"}, now : {0}]

---------------------------------------------------------------------------
(* Results: Result<T, Error>, or a panic. *)

\* ApiErrors, both lists defaulting to empty
NoApiErrors == [errors |-> <<>>, error_messages |-> <<>>]

MkResult(tag, kind, code, ra, errs, cause) ==
    [tag |-> tag, kind |-> kind, code |-> code, retry_after |-> ra,
     errors |-> errs, cause |-> cause, at |-> 0, status |-> 0]

NoResult == MkResult("None", "None", 0, {}, NoApiErrors, "none")

OkPayload == MkResult("Ok", "Payload", 0, {}, NoApiErrors, "none")

Panic == MkResult("Panic", "Panic", 0, {}, NoApiErrors, "unwrap_err")

MkErr(kind, code, ra, errs, cause) == MkResult("Err", kind, code, ra, errs, cause)

StatusIsSuccess(s) == 200 <= s /\ s <= 299

StatusIsClientError(s) == 400 <= s /\ s <= 499

StatusIsServerError(s) == 500 <= s /\ s <= 599

\* serde_json::from_str::<ApiErrors>: every field has a default, so every
\* JSON object parses
ParsesAsApiErrors(body) == body \in {"payload", "errors"}

ApiErrorsOf(body) ==
    IF body = "errors"
    THEN [errors |-> <<"e1">>, error_messages |-> <<"m1">>]
    ELSE NoApiErrors

\* response.json::<T>()
DecodesAsT(body) == body = "payload"

---------------------------------------------------------------------------
(* ErrorClassifier: error_from_status of both clients. *)

\* date.duration_since(SystemTime::now()): Ok exactly when the date is not
\* before now; as_secs() drops the fraction of a second
SecondsUntil(date_secs, now) == (date_secs * TicksPerSec - now) \div TicksPerSec

DateNotBefore(date_secs, now) == date_secs * TicksPerSec >= now

\* the closure parsing the Retry-After header: an Option<u64> as a set with
\* at most one element
parse_retry_after_dates_ignored(h, now) ==
    IF h.tag = "secs" THEN {h.v} ELSE {}

parse_retry_after(h, now) ==
    CASE h.tag \in {"absent", "opaque"} -> {}
      [] h.tag = "secs" -> {h.v}
      [] h.tag = "date" ->
            IF DateNotBefore(h.v, now) THEN {SecondsUntil(h.v, now)} ELSE {}
      [] OTHER -> {}

\* Jobsuche::error_from_status (blocking client)
error_from_status(status, h, body, now) ==
    CASE status = UNAUTHORIZED -> MkErr("Unauthorized", 0, {}, NoApiErrors, "status")
      [] status = FORBIDDEN -> MkErr("Forbidden", 0, {}, NoApiErrors, "status")
      [] status = NOT_FOUND -> MkErr("NotFound", 0, {}, NoApiErrors, "status")
      [] status = METHOD_NOT_ALLOWED ->
            MkErr("MethodNotAllowed", 0, {}, NoApiErrors, "status")
      [] status = TOO_MANY_REQUESTS ->
            MkErr("RateLimited", 0, parse_retry_after(h, now), NoApiErrors, "status")
      [] OTHER ->
            IF ParsesAsApiErrors(body)
            THEN MkErr("Fault", status, {}, ApiErrorsOf(body), "status")
            ELSE IF StatusIsClientError(status) \/ StatusIsServerError(status)
                 THEN \* response.error_for_status() is Err: a reqwest status error
                      MkErr("Http", status, {}, NoApiErrors, "status")
                 ELSE \* response.error_for_status() is Ok: unwrap_err() panics
                      Panic

\* JobsucheAsync::error_from_status (non-blocking client)
async_error_from_status(status, h, body, now) ==
    CASE status = UNAUTHORIZED -> MkErr("Unauthorized", 0, {}, NoApiErrors, "status")
      [] status = FORBIDDEN -> MkErr("Forbidden", 0, {}, NoApiErrors, "status")
      [] status = NOT_FOUND -> MkErr("NotFound", 0, {}, NoApiErrors, "status")
      [] status = METHOD_NOT_ALLOWED ->
            MkErr("MethodNotAllowed", 0, {}, NoApiErrors, "status")
      [] status = TOO_MANY_REQUESTS ->
            MkErr("RateLimited", 0, parse_retry_after(h, now), NoApiErrors, "status")
      [] OTHER ->
            IF ParsesAsApiErrors(body)
            THEN MkErr("Fault", status, {}, ApiErrorsOf(body), "status")
            ELSE MkErr("Fault", status, {}, NoApiErrors, "status")

\* Jobsuche::get_once: send, classify a non-2xx status, decode a 2xx body
get_once(o) ==
    IF o.net # "resp"
    THEN MkErr("Http", 0, {}, NoApiErrors, o.net)
    ELSE IF ~StatusIsSuccess(o.status)
         THEN error_from_status(o.status, o.header, o.body, o.now)
         ELSE IF DecodesAsT(o.body)
              THEN OkPayload
              ELSE MkErr("Http", 0, {}, NoApiErrors, "decode")

\* JobsucheAsync::get: the same steps, with the non-blocking classifier
async_get(o) ==
    IF o.net # "resp"
    THEN MkErr("Http", 0, {}, NoApiErrors, o.net)
    ELSE IF ~StatusIsSuccess(o.status)
         THEN async_error_from_status(o.status, o.header, o.body, o.now)
         ELSE IF DecodesAsT(o.body)
              THEN OkPayload
              ELSE MkErr("Http", 0, {}, NoApiErrors, "decode")

---------------------------------------------------------------------------
(* RetryPolicy: the backoff schedule and the decisions of Jobsuche::get. *)

\* ExponentialBuilder::default().with_max_times(max_retries)
\*     .with_max_delay(60 s).build(): no delay handed out yet (an
\* Option<Duration> as a set), no jitter
build_backoff_one_short(n) ==
    [attempts |-> 0, current_delay |-> {},
     max_times |-> IF n > 0 THEN n - 1 ELSE 0]

build_backoff(n) == [attempts |-> 0, current_delay |-> {}, max_times |-> n]

\* the doubling without the cap
NextDelay_uncapped(cur) == cur * BackoffFactor

\* the delay after `cur`: doubled, capped at the maximum delay
NextDelay(cur) == Min(cur * BackoffFactor, MaxDelaySecs)

\* backoff_iter.next(): [some, delay, iter], None once max_times delays
\* were handed out
backoff_next(b) ==
    IF b.attempts >= b.max_times
    THEN [some |-> FALSE, delay |-> 0, iter |-> b]
    ELSE LET d == IF b.current_delay = {}
                  THEN MinDelaySecs
                  ELSE NextDelay(CHOOSE c \in b.current_delay : TRUE)
         IN [some |-> TRUE, delay |-> d,
             iter |-> [b EXCEPT !.attempts = @ + 1, !.current_delay = {d}]]

\* `if !self.config.retry_enabled`: get is a single get_once
retry_disabled_ignored == FALSE

retry_disabled == ~retry_enabled

\* the matches! of Jobsuche::get: which errors are retried
should_retry_not_found(e) ==
    \/ e.kind \in {"Http", "RateLimited", "NotFound"}
    \/ e.kind = "Fault" /\ e.code \in {SERVICE_UNAVAILABLE, GATEWAY_TIMEOUT}

should_retry(e) ==
    \/ e.kind = "Http"
    \/ e.kind = "RateLimited"
    \/ e.kind = "Fault" /\ e.code \in {SERVICE_UNAVAILABLE, GATEWAY_TIMEOUT}

\* `attempt > self.config.max_retries`
attempts_exhausted_one_early(a, n) == a >= n

\* the error of the first attempt is returned whatever it is
attempts_exhausted_at_once(a, n) == TRUE

attempts_exhausted(a, n) == a > n

\* the sleep before the next attempt: the server's retry_after when the
\* error is RateLimited with one, else the next delay of the backoff
\* iterator, which is left untouched in the first case
retry_delay_backoff_only(e, b) == backoff_next(b)

retry_delay(e, b) ==
    IF e.kind = "RateLimited" /\ e.retry_after # {}
    THEN [some |-> TRUE, delay |-> CHOOSE s \in e.retry_after : TRUE, iter |-> b]
    ELSE backoff_next(b)

---------------------------------------------------------------------------
(* RequestExecutor: Jobsuche::get as a state machine.  One step is one     *)
(* get_once call with everything get does up to its return or its sleep;   *)
(* the sleep is a step of its own.                                          *)

\* a get_once result with its ghost fields: the call that produced it and
\* the status of the response (0 when there was none)
Stamp(r, o, k) == [r EXCEPT !.at = k, !.status = o.status]

NoBackoff == build_backoff(0)

TypeOK ==
    /\ retry_enabled \in BOOLEAN
    /\ max_retries \in 0..MaxRetriesBound
    /\ pc \in {"idle", "once", "loop", "sleeping", "returned", "panicked"}
    /\ attempt \in 0..(MaxRetriesBound + 1)
    /\ calls \in 0..(MaxRetriesBound + 1)
    /\ sleeps \in 0..MaxRetriesBound
    /\ delay \in 0..MaxDelaySecs
    /\ Len(ret) <= 1
    /\ exit \in {"none", "once", "ok", "terminal", "backoff_none"}

InitGet ==
    /\ retry_enabled \in BOOLEAN
    /\ max_retries \in 0..MaxRetriesBound
    /\ pc = "idle"
    /\ attempt = 0
    /\ backoff_iter = NoBackoff
    /\ delay = 0
    /\ last = NoResult
    /\ calls = 0
    /\ sleeps = 0
    /\ ret = <<>>
    /\ exit = "none"
    /\ requests = <<>>

\* entry of Jobsuche::get, up to the first get_once call
GetCall ==
    /\ pc = "idle"
    /\ IF retry_disabled
       THEN /\ pc' = "once"
            /\ UNCHANGED <<attempt, backoff_iter>>
       ELSE /\ pc' = "loop"
            /\ attempt' = 0
            /\ backoff_iter' = build_backoff(max_retries)
    /\ UNCHANGED <<retry_enabled, max_retries, delay, last, calls, sleeps,
                   ret, exit>>
    /\ UNCHANGED <<requests, cl_vars>>
    /\ UNCHANGED <<it_vars, co_vars, pair_vars, b_vars, r_vars>>

\* `return self.get_once(path)` with retries disabled
GetOnceOnly ==
    /\ pc = "once"
    /\ \E o \in Outcomes :
         LET r == Stamp(get_once(o), o, calls + 1) IN
         /\ last' = r
         /\ calls' = calls + 1
         /\ IF r.tag = "Panic"
            THEN pc' = "panicked" /\ ret' = ret /\ exit' = exit
            ELSE pc' = "returned" /\ ret' = Append(ret, r) /\ exit' = "once"
    /\ UNCHANGED <<retry_enabled, max_retries, attempt, backoff_iter, delay,
                   sleeps>>
    /\ UNCHANGED <<requests, cl_vars>>
    /\ UNCHANGED <<it_vars, co_vars, pair_vars, b_vars, r_vars>>

\* one iteration of the loop of Jobsuche::get
GetAttempt ==
    /\ pc = "loop"
    /\ \E o \in Outcomes :
         LET a == attempt + 1
             r == Stamp(get_once(o), o, calls + 1)
             d == retry_delay(r, backoff_iter)
         IN
         /\ attempt' = a
         /\ last' = r
         /\ calls' = calls + 1
         /\ IF r.tag = "Panic"
            THEN /\ pc' = "panicked"
                 /\ UNCHANGED <<ret, exit, delay, backoff_iter>>
            ELSE IF r.tag = "Ok"
            THEN /\ pc' = "returned"
                 /\ ret' = Append(ret, r)
                 /\ exit' = "ok"
                 /\ UNCHANGED <<delay, backoff_iter>>
            ELSE IF ~should_retry(r) \/ attempts_exhausted(a, max_retries)
            THEN /\ pc' = "returned"
                 /\ ret' = Append(ret, r)
                 /\ exit' = "terminal"
                 /\ UNCHANGED <<delay, backoff_iter>>
            ELSE IF d.some
            THEN /\ pc' = "sleeping"
                 /\ delay' = d.delay
                 /\ backoff_iter' = d.iter
                 /\ UNCHANGED <<ret, exit>>
            ELSE /\ pc' = "returned"
                 /\ ret' = Append(ret, r)
                 /\ exit' = "backoff_none"
                 /\ UNCHANGED <<delay, backoff_iter>>
    /\ UNCHANGED <<retry_enabled, max_retries, sleeps>>
    /\ UNCHANGED <<requests, cl_vars>>
    /\ UNCHANGED <<it_vars, co_vars, pair_vars, b_vars, r_vars>>

\* a sleep placed after the attempt whose error is returned
Sleep_then_returns ==
    /\ pc = "sleeping"
    /\ pc' = "returned"
    /\ sleeps' = sleeps + 1
    /\ ret' = Append(ret, last)
    /\ exit' = "terminal"
    /\ UNCHANGED <<retry_enabled, max_retries, attempt, backoff_iter, delay,
                   last, calls>>
    /\ UNCHANGED <<requests, cl_vars>>
    /\ UNCHANGED <<it_vars, co_vars, pair_vars, b_vars, r_vars>>

\* thread::sleep(duration) returns; the loop goes round
Sleep ==
    /\ pc = "sleeping"
    /\ pc' = "loop"
    /\ sleeps' = sleeps + 1
    /\ UNCHANGED <<retry_enabled, max_retries, attempt, backoff_iter, delay,
                   last, calls, ret, exit>>
    /\ UNCHANGED <<requests, cl_vars>>
    /\ UNCHANGED <<it_vars, co_vars, pair_vars, b_vars, r_vars>>

\* no item has been asked of the iterator yet
NoOutput == [tag |-> "none", item |-> <<0, 0>>]

\* JobIterator::new with the page size the options carry
JobIterator_new(size) ==
    /\ page_size = size
    /\ current_page = 0
    /\ current_page_jobs = <<>>
    /\ current_index = 0
    /\ finished = FALSE
    /\ max_results = {}
    /\ total_yielded = 0
    /\ it_out = NoOutput
    /\ it_log = <<>>
    /\ it_yielded = <<>>
    /\ it_fetches = 0

\* Search::iter has not been called
NoCollect ==
    /\ co_pc = "off"
    /\ co_vec = <<>>
    /\ co_result = [tag |-> "none", items |-> <<>>]

\* no second iterator is followed
NoPair ==
    /\ other = <<>>
    /\ answers = <<>>

\* SearchOptionsBuilder::new, and no SearchOptions built
NoBuilder ==
    /\ b_params = <<>>
    /\ b_latest = <<>>
    /\ b_count = 0
    /\ b_last = [op |-> "new", name |-> <<>>, arg |-> <<>>, old |-> {},
                 reopened |-> FALSE]
    /\ o_params = {}
    /\ o_snapshot = {}

\* no reference number is being encoded
NoRefnr ==
    /\ r_in = <<>>
    /\ r_enc = {}
    /\ r_dec = {}

NoInput ==
    [net |-> "refused", status |-> 0, header |-> [tag |-> "absent", v |-> 0],
     body |-> "text", now |-> 0]

Init ==
    /\ InitGet
    /\ cl_in = NoInput
    /\ cl_sync = NoResult
    /\ cl_async = NoResult
    /\ JobIterator_new(0)
    /\ NoCollect
    /\ NoPair
    /\ NoBuilder
    /\ NoRefnr

Next == GetCall \/ GetOnceOnly \/ GetAttempt \/ Sleep

Spec == Init /\ [][Next]_vars

---------------------------------------------------------------------------
(* A second logical request of the same client, after the first returned.  *)
(* The ghosts of the request start again with it; of the first request the *)
(* model keeps whether it used up all its attempts.                        *)

attempt_carried_over(old) == old

\* let mut attempt = 0
new_attempt(old) == 0

\* the caller calls Jobsuche::get again; of the request that has returned
\* the model keeps whether it made max_retries + 1 attempts
GetCallAgain ==
    /\ pc = "returned"
    /\ requests = <<>>
    /\ requests' = Append(requests, retry_enabled /\ calls = max_retries + 1)
    /\ IF retry_disabled
       THEN /\ pc' = "once"
            /\ UNCHANGED <<attempt, backoff_iter>>
       ELSE /\ pc' = "loop"
            /\ attempt' = new_attempt(attempt)
            /\ backoff_iter' = build_backoff(max_retries)
    /\ delay' = 0
    /\ last' = NoResult
    /\ calls' = 0
    /\ sleeps' = 0
    /\ ret' = <<>>
    /\ exit' = "none"
    /\ UNCHANGED <<retry_enabled, max_retries, cl_vars>>
    /\ UNCHANGED <<it_vars, co_vars, pair_vars, b_vars, r_vars>>

NextSeq == GetCall \/ GetOnceOnly \/ GetAttempt \/ Sleep \/ GetCallAgain

SpecSeq == Init /\ [][NextSeq]_vars

---------------------------------------------------------------------------
(* The backoff schedule on its own: the iterator get builds, asked for one *)
(* delay after the other until it has none left, for every max_times up   *)
(* to MaxTimesBound, far enough for the cap on a single delay to apply.    *)

InitBackoff ==
    /\ max_retries \in 0..MaxTimesBound
    /\ backoff_iter = build_backoff(max_retries)
    /\ retry_enabled = TRUE
    /\ pc = "idle"
    /\ attempt = 0
    /\ delay = 0
    /\ last = NoResult
    /\ calls = 0
    /\ sleeps = 0
    /\ ret = <<>>
    /\ exit = "none"
    /\ requests = <<>>
    /\ cl_in = NoInput
    /\ cl_sync = NoResult
    /\ cl_async = NoResult
    /\ JobIterator_new(0)
    /\ NoCollect
    /\ NoPair
    /\ NoBuilder
    /\ NoRefnr

\* backoff_iter.next(): the next delay, or None when max_times were given
BackoffNext ==
    /\ exit = "none"
    /\ LET d == backoff_next(backoff_iter)
       IN IF d.some
          THEN /\ delay' = d.delay
               /\ backoff_iter' = d.iter
               /\ exit' = exit
          ELSE /\ exit' = "backoff_none"
               /\ UNCHANGED <<delay, backoff_iter>>
    /\ UNCHANGED <<retry_enabled, max_retries, pc, attempt, last, calls,
                   sleeps, ret, requests>>
    /\ UNCHANGED <<cl_vars, it_vars, co_vars, pair_vars, b_vars, r_vars>>

SpecBackoff == InitBackoff /\ [][BackoffNext]_vars

---------------------------------------------------------------------------
(* The classifiers run side by side on one transport outcome. *)

InitClassify ==
    /\ cl_in \in Outcomes
    /\ cl_sync = NoResult
    /\ cl_async = NoResult
    /\ retry_enabled = FALSE
    /\ max_retries = 0
    /\ pc = "idle"
    /\ attempt = 0
    /\ backoff_iter = NoBackoff
    /\ delay = 0
    /\ last = NoResult
    /\ calls = 0
    /\ sleeps = 0
    /\ ret = <<>>
    /\ exit = "none"
    /\ requests = <<>>
    /\ JobIterator_new(0)
    /\ NoCollect
    /\ NoPair
    /\ NoBuilder
    /\ NoRefnr

\* the blocking client handles the outcome
ClassifySync ==
    /\ cl_sync = NoResult
    /\ cl_sync' = get_once(cl_in)
    /\ UNCHANGED <<cl_in, cl_async>>
    /\ UNCHANGED get_vars
    /\ UNCHANGED <<it_vars, co_vars, pair_vars, b_vars, r_vars>>

\* the non-blocking client handles the outcome
ClassifyAsync ==
    /\ cl_async = NoResult
    /\ cl_async' = async_get(cl_in)
    /\ UNCHANGED <<cl_in, cl_sync>>
    /\ UNCHANGED get_vars
    /\ UNCHANGED <<it_vars, co_vars, pair_vars, b_vars, r_vars>>

NextClassify == ClassifySync \/ ClassifyAsync

SpecClassify == InitClassify /\ [][NextClassify]_vars

---------------------------------------------------------------------------
(* The lazy pagination engine, JobIterator (src/src/pagination.rs), and    *)
(* the eager Search::iter built on it (src/src/search.rs).                 *)
(*                                                                         *)
(* One page fetch is one call of Search::list, a whole logical request of  *)
(* the executor above that returned: Ok with the page the server sent, or  *)
(* Err.  A job listing is named by the page number it was requested under  *)
(* and its position in that page.                                          *)

\* the largest page size (SearchOptions.size) explored
MaxPageSize == 2

\* the largest maxErgebnisse the server reports
MaxTotal == 4

\* the number of page fetches followed with full logs
MaxFetches == 3

\* the safety limit of fetch_next_page
MaxPagesLimit == 1000

\* lengths of the stellenangebote list of one response; a server may send
\* more items than the size asked for
PageLens == 0..(MaxPageSize + 1)

\* maxErgebnisse of one response, an Option
Totals == {{}} \cup {{t} : t \in 0..MaxTotal}

\* what Search::list hands to fetch_next_page
ListResponses ==
    [ok : {TRUE}, len : PageLens, total : Totals]
        \cup {[ok |-> FALSE, len |-> 0, total |-> {}]}

\* response.stellenangebote of the page requested as number p
PageItems(p, n) == [i \in 1..n |-> <<p, i>>]

next_page_number_stays(p) == p

\* self.current_page += 1
next_page_number(p) == p + 1

over_safety_limit_one_late(p) == p > MaxPagesLimit + 1

over_safety_limit_off(p) == FALSE

\* self.current_page > 1000
over_safety_limit(p) == p > MaxPagesLimit

is_last_page_only_empty(count, size) == count = 0

\* jobs_count < self.page_size
is_last_page(count, size) == count < size

\* if let Some(max) = self.max_results { self.total_yielded >= max }
reached_max(yielded, max) == \E m \in max : yielded >= m

buffer_appended(old, items) == old \o items

buffer_first_page_kept(old, items) == IF old = <<>> THEN items ELSE old

\* self.current_page_jobs = response.stellenangebote
buffer_after_fetch(old, items) == items

page_has_item_but_last(idx, jobs) == idx + 1 < Len(jobs)

\* self.current_index < self.current_page_jobs.len()
page_has_item(idx, jobs) == idx < Len(jobs)

\* JobIterator::fetch_next_page when Search::list answers resp: the fields
\* it leaves behind, whether a request went out, and what it returns
fetch_next_page(resp) ==
    LET p == next_page_number(current_page)
        keep == [page |-> current_page, sent |-> FALSE, res |-> "Ok(false)",
                 jobs |-> current_page_jobs, index |-> current_index,
                 finished |-> finished, max |-> max_results]
    IN
    IF finished THEN keep
    ELSE IF over_safety_limit(p)
    THEN [keep EXCEPT !.page = p, !.finished = TRUE]
    ELSE IF ~resp.ok
    THEN [keep EXCEPT !.page = p, !.sent = TRUE, !.res = "Err"]
    ELSE LET max == IF p = 1 THEN resp.total ELSE max_results
             count == resp.len
         IN
         [page |-> p, sent |-> TRUE,
          res |-> IF count > 0 THEN "Ok(true)" ELSE "Ok(false)",
          jobs |-> buffer_after_fetch(current_page_jobs, PageItems(p, count)),
          index |-> 0,
          finished |-> is_last_page(count, page_size)
                           \/ reached_max(total_yielded, max),
          max |-> max]

ItemOut(j) == [tag |-> "Item", item |-> j]

NoneOut == [tag |-> "None", item |-> <<0, 0>>]

ErrOut == [tag |-> "Err", item |-> <<0, 0>>]

\* the ghost logs grow only in a traced run
Trace(traced, log, x) == IF traced THEN Append(log, x) ELSE log

\* Iterator::next, the buffered page still has a job: Some(Ok(job))
next_item(traced) ==
    /\ page_has_item(current_index, current_page_jobs)
    /\ LET job == current_page_jobs[current_index + 1] IN
       /\ current_index' = current_index + 1
       /\ total_yielded' = total_yielded + 1
       /\ it_out' = ItemOut(job)
       /\ it_yielded' = Trace(traced, it_yielded, job)
    /\ UNCHANGED <<page_size, current_page, current_page_jobs, finished,
                   max_results, it_log, it_fetches>>

\* a next() that does not return once the engine is finished
next_finished_hangs == FALSE

\* a next() that returns None and makes the engine ready to fetch again
next_finished_starts_over ==
    /\ ~page_has_item(current_index, current_page_jobs)
    /\ finished
    /\ finished' = FALSE
    /\ it_out' = NoneOut
    /\ UNCHANGED <<page_size, current_page, current_page_jobs, current_index,
                   max_results, total_yielded, it_log, it_yielded,
                   it_fetches>>

\* Iterator::next, the page is used up and the engine is finished: None
next_finished ==
    /\ ~page_has_item(current_index, current_page_jobs)
    /\ finished
    /\ it_out' = NoneOut
    /\ UNCHANGED <<page_size, current_page, current_page_jobs, current_index,
                   finished, max_results, total_yielded, it_log, it_yielded,
                   it_fetches>>

\* Iterator::next, the page is used up and the engine is not finished:
\* fetch_next_page runs, and on Ok(true) the loop hands out the first job
next_fetch(resps, traced) ==
    /\ ~page_has_item(current_index, current_page_jobs)
    /\ ~finished
    /\ \E resp \in resps :
         LET f == fetch_next_page(resp)
             some == f.res = "Ok(true)"
         IN
         /\ current_page' = f.page
         /\ current_page_jobs' = f.jobs
         /\ finished' = f.finished
         /\ max_results' = f.max
         /\ current_index' = IF some THEN f.index + 1 ELSE f.index
         /\ total_yielded' = IF some THEN total_yielded + 1 ELSE total_yielded
         /\ it_out' = IF some THEN ItemOut(f.jobs[f.index + 1])
                      ELSE IF f.res = "Err" THEN ErrOut ELSE NoneOut
         /\ it_yielded' = IF some
                          THEN Trace(traced, it_yielded, f.jobs[f.index + 1])
                          ELSE it_yielded
         /\ it_fetches' = IF f.sent THEN it_fetches + 1 ELSE it_fetches
         /\ it_log' = IF f.sent
                      THEN Trace(traced, it_log,
                                 [page |-> f.page, ok |-> resp.ok,
                                  len |-> resp.len])
                      ELSE it_log
    /\ UNCHANGED page_size

\* no logical request of the executor is being followed
NoRequest ==
    /\ retry_enabled = FALSE
    /\ max_retries = 0
    /\ pc = "idle"
    /\ attempt = 0
    /\ backoff_iter = NoBackoff
    /\ delay = 0
    /\ last = NoResult
    /\ calls = 0
    /\ sleeps = 0
    /\ ret = <<>>
    /\ exit = "none"
    /\ requests = <<>>
    /\ cl_in = NoInput
    /\ cl_sync = NoResult
    /\ cl_async = NoResult

\* Search::jobs with options that carry a size; the caller then asks for
\* items one at a time and may stop at any point
InitIter ==
    /\ NoRequest
    /\ \E size \in 0..MaxPageSize : JobIterator_new(size)
    /\ NoCollect
    /\ NoPair
    /\ NoBuilder
    /\ NoRefnr

LazyItem ==
    /\ co_pc = "off"
    /\ next_item(TRUE)
    /\ UNCHANGED <<get_vars, cl_vars, co_vars>>
    /\ UNCHANGED <<pair_vars, b_vars, r_vars>>

LazyFinished ==
    /\ co_pc = "off"
    /\ next_finished
    /\ UNCHANGED <<get_vars, cl_vars, co_vars>>
    /\ UNCHANGED <<pair_vars, b_vars, r_vars>>

LazyFetch ==
    /\ co_pc = "off"
    /\ it_fetches < MaxFetches
    /\ next_fetch(ListResponses, TRUE)
    /\ UNCHANGED <<get_vars, cl_vars, co_vars>>
    /\ UNCHANGED <<pair_vars, b_vars, r_vars>>

NextIter == LazyItem \/ LazyFinished \/ LazyFetch

SpecIter == InitIter /\ [][NextIter]_vars

---------------------------------------------------------------------------
(* Search::iter: self.jobs(options)?.collect() into a Result<Vec<_>>.      *)
(* collect calls next() until it returns None or the first Some(Err(_)).   *)

OkVec(items) == [tag |-> "Ok", items |-> items]

ErrResult == [tag |-> "Err", items |-> <<>>]

collect_ends_at_none_only(o) == o.tag = "None"

\* the collect into a Result stops at None and at the first Err
collect_ends(o) == o.tag \in {"None", "Err"}

\* what collect does with the value next() has just returned
collect_step(o) ==
    /\ co_vec' = IF o.tag = "Item" THEN Append(co_vec, o.item)
                 ELSE IF o.tag = "Err" THEN <<>>
                 ELSE co_vec
    /\ co_pc' = IF collect_ends(o) THEN "done" ELSE "running"
    /\ co_result' = IF o.tag = "None" THEN OkVec(co_vec)
                    ELSE IF o.tag = "Err" THEN ErrResult
                    ELSE co_result

InitCollect ==
    /\ NoRequest
    /\ \E size \in 0..MaxPageSize : JobIterator_new(size)
    /\ co_pc = "running"
    /\ co_vec = <<>>
    /\ co_result = [tag |-> "none", items |-> <<>>]
    /\ NoPair
    /\ NoBuilder
    /\ NoRefnr

CollectItem ==
    /\ co_pc = "running"
    /\ next_item(TRUE)
    /\ collect_step(it_out')
    /\ UNCHANGED <<get_vars, cl_vars>>
    /\ UNCHANGED <<pair_vars, b_vars, r_vars>>

CollectFinished ==
    /\ co_pc = "running"
    /\ next_finished
    /\ collect_step(it_out')
    /\ UNCHANGED <<get_vars, cl_vars>>
    /\ UNCHANGED <<pair_vars, b_vars, r_vars>>

CollectFetch ==
    /\ co_pc = "running"
    /\ it_fetches < MaxFetches
    /\ next_fetch(ListResponses, TRUE)
    /\ collect_step(it_out')
    /\ UNCHANGED <<get_vars, cl_vars>>
    /\ UNCHANGED <<pair_vars, b_vars, r_vars>>

NextCollect == CollectItem \/ CollectFinished \/ CollectFetch

SpecCollect == InitCollect /\ [][NextCollect]_vars

---------------------------------------------------------------------------
(* Long runs of the engine, up to the safety limit.  The logs are not      *)
(* kept.  The server answers every fetch with a full page, or fails every  *)
(* fetch, or answers full pages and then fails from some fetch on; its     *)
(* first page carries any total.                                           *)

\* a page of exactly page_size items
FullPages == {r \in ListResponses : r.ok /\ r.len = page_size}

\* Search::list returns Err
Failures == {r \in ListResponses : ~r.ok}

InitCeiling ==
    /\ NoRequest
    /\ \E size \in 0..MaxPageSize : JobIterator_new(size)
    /\ NoCollect
    /\ NoPair
    /\ NoBuilder
    /\ NoRefnr

LongItem ==
    /\ co_pc = "off"
    /\ next_item(FALSE)
    /\ UNCHANGED <<get_vars, cl_vars, co_vars>>
    /\ UNCHANGED <<pair_vars, b_vars, r_vars>>

LongFinished ==
    /\ co_pc = "off"
    /\ next_finished
    /\ UNCHANGED <<get_vars, cl_vars, co_vars>>
    /\ UNCHANGED <<pair_vars, b_vars, r_vars>>

\* the server has not failed yet and answers a full page
LongFetchFull ==
    /\ co_pc = "off"
    /\ it_out.tag # "Err"
    /\ next_fetch(FullPages, FALSE)
    /\ UNCHANGED <<get_vars, cl_vars, co_vars>>
    /\ UNCHANGED <<pair_vars, b_vars, r_vars>>

\* the server fails, as it did on every fetch before
LongFetchErr ==
    /\ co_pc = "off"
    /\ (it_fetches = 0 \/ it_out.tag = "Err")
    /\ next_fetch(Failures, FALSE)
    /\ UNCHANGED <<get_vars, cl_vars, co_vars>>
    /\ UNCHANGED <<pair_vars, b_vars, r_vars>>

\* the server fails for the first time after it answered full pages
LongFetchErrLate ==
    /\ co_pc = "off"
    /\ it_fetches > 0
    /\ it_out.tag # "Err"
    /\ next_fetch(Failures, FALSE)
    /\ UNCHANGED <<get_vars, cl_vars, co_vars>>
    /\ UNCHANGED <<pair_vars, b_vars, r_vars>>

NextCeiling ==
    LongItem \/ LongFinished \/ LongFetchFull \/ LongFetchErr
        \/ LongFetchErrLate

SpecCeiling == InitCeiling /\ [][NextCeiling]_vars

\* the server answers every fetch alike; the consumer keeps calling next()
NextUniform == LongItem \/ LongFinished \/ LongFetchFull \/ LongFetchErr

SpecUniformFair ==
    InitCeiling /\ [][NextUniform]_vars /\ WF_vars(NextUniform)


---------------------------------------------------------------------------
(* Long runs of one engine with the answer to its first request kept: the  *)
(* server answers page 1 with any page and any total or fails, and every   *)
(* later request with a full page and any total; a server that failed on   *)
(* page 1 may go on failing, for every request.                            *)

\* the engine asks for a page and the server answers
CursorFetch ==
    /\ co_pc = "off"
    /\ \E resp \in IF current_page = 0 THEN ListResponses
                    ELSE IF it_out.tag # "Err" THEN FullPages
                    ELSE IF current_page = 1 THEN FullPages \cup Failures
                    ELSE Failures :
         /\ next_fetch({resp}, FALSE)
         /\ answers' = IF current_page = 0
                       THEN [q \in {<<page_size, 1>>} |-> resp]
                       ELSE answers
    /\ UNCHANGED <<get_vars, cl_vars, co_vars, other, b_vars, r_vars>>

NextCursor == LongItem \/ LongFinished \/ CursorFetch

SpecCursor == InitCeiling /\ [][NextCursor]_vars

---------------------------------------------------------------------------
(* Two JobIterators made by Search::jobs of one client.  The caller has    *)
(* one of them in hand (the variables of the engine above) and the other   *)
(* one beside it, and calls next() on them in any order.  Both were made   *)
(* from the same options, and the server is the same for both: it answers  *)
(* a request for a page the way it answered the same request before.       *)
(* The server sends empty pages, full pages and pages one item short of    *)
(* full, or fails.                                                         *)

\* the fetches of one iterator of a pair followed with full logs
MaxPairFetches == 3

\* the JobIterator in hand, as one value
InHand ==
    [page_size |-> page_size, current_page |-> current_page,
     current_page_jobs |-> current_page_jobs,
     current_index |-> current_index, finished |-> finished,
     max_results |-> max_results, total_yielded |-> total_yielded,
     it_out |-> it_out, it_log |-> it_log, it_yielded |-> it_yielded,
     it_fetches |-> it_fetches]

\* what JobIterator::new hands out, as one value
NewIterator(size) ==
    [page_size |-> size, current_page |-> 0, current_page_jobs |-> <<>>,
     current_index |-> 0, finished |-> FALSE, max_results |-> {},
     total_yielded |-> 0, it_out |-> NoOutput, it_log |-> <<>>,
     it_yielded |-> <<>>, it_fetches |-> 0]

\* a page counter that belongs to the client and not to the iterator
current_page_of_client(own, inhand) == inhand

\* current_page is a field of each JobIterator
current_page_of(own, inhand) == own

\* two calls of Search::jobs on one client, with the same options
InitPair ==
    /\ NoRequest
    /\ \E size \in 0..MaxPageSize :
         /\ JobIterator_new(size)
         /\ other = NewIterator(size)
    /\ NoCollect
    /\ answers = <<>>
    /\ NoBuilder
    /\ NoRefnr

\* the caller puts down the iterator in hand and takes up the other one
Turn ==
    /\ co_pc = "off"
    /\ other' = InHand
    /\ page_size' = other.page_size
    /\ current_page' = current_page_of(other.current_page, current_page)
    /\ current_page_jobs' = other.current_page_jobs
    /\ current_index' = other.current_index
    /\ finished' = other.finished
    /\ max_results' = other.max_results
    /\ total_yielded' = other.total_yielded
    /\ it_out' = other.it_out
    /\ it_log' = other.it_log
    /\ it_yielded' = other.it_yielded
    /\ it_fetches' = other.it_fetches
    /\ UNCHANGED <<get_vars, cl_vars, co_vars, answers, b_vars, r_vars>>

\* what the server of the pair sends to an iterator of page size `size`
PairResponses(size) ==
    {r \in ListResponses :
        r.ok => (r.len \in {0, size} \/ r.len + 1 = size)}

\* the server answers the request in hand as it answered it before
PairFetch ==
    /\ co_pc = "off"
    /\ it_fetches < MaxPairFetches
    /\ LET req == <<page_size, next_page_number(current_page)>> IN
       \E resp \in PairResponses(page_size) :
         /\ req \in DOMAIN answers => resp = answers[req]
         /\ next_fetch({resp}, TRUE)
         /\ answers' = IF it_fetches' = it_fetches THEN answers
                       ELSE [q \in DOMAIN answers \cup {req} |->
                                IF q = req THEN resp ELSE answers[q]]
    /\ UNCHANGED <<get_vars, cl_vars, co_vars, other, b_vars, r_vars>>

NextPair == Turn \/ LazyItem \/ LazyFinished \/ PairFetch

SpecPair == InitPair /\ [][NextPair]_vars
---------------------------------------------------------------------------
(* SearchAsync::iter (src/src/search.rs): the collect-all loop of the      *)
(* non-blocking client, one value holding its locals.  One step is one     *)
(* round of the loop: the page request, the answer, and what the loop does *)
(* with it.  The value is kept beside the engine, in `other`.              *)

\* no page was answered yet
NoResponse == [ok |-> TRUE, len |-> 0, total |-> {}]

\* the loop gives up one page early
async_over_limit_early(p) == p >= MaxPagesLimit

\* page > 1000
async_over_limit(p) == p > MaxPagesLimit

\* the locals at the head of the loop: all_jobs, page, size; sent counts
\* the requests and resp is the last answer
async_iter_new(size) ==
    [size |-> size, page |-> 1, all_jobs |-> <<>>, pc |-> "running",
     result |-> [tag |-> "none", items |-> <<>>], sent |-> 0,
     resp |-> NoResponse]

\* one round of the loop of SearchAsync::iter when the request for
\* st.page is answered with resp
async_iter_round(st, resp) ==
    IF ~resp.ok
    THEN [st EXCEPT !.pc = "done", !.result = ErrResult, !.all_jobs = <<>>,
                    !.sent = @ + 1, !.resp = resp]
    ELSE LET all == st.all_jobs \o PageItems(st.page, resp.len)
             got == [st EXCEPT !.all_jobs = all, !.sent = @ + 1,
                               !.resp = resp]
             stop == [got EXCEPT !.pc = "done", !.result = OkVec(all)]
         IN IF resp.len < st.size THEN stop
            ELSE IF \E max \in resp.total : Len(all) >= max THEN stop
            ELSE IF async_over_limit(st.page + 1)
            THEN [stop EXCEPT !.page = st.page + 1]
            ELSE [got EXCEPT !.page = st.page + 1]

\* SearchAsync::iter is called with options that carry a size
InitAsync ==
    /\ NoRequest
    /\ JobIterator_new(0)
    /\ NoCollect
    /\ \E size \in 0..MaxPageSize : other = async_iter_new(size)
    /\ answers = <<>>
    /\ NoBuilder
    /\ NoRefnr

\* a round of the loop; the server answers with a page of at most the size
\* asked for and any total, or fails
AsyncRound ==
    /\ other.pc = "running"
    /\ \E resp \in {r \in ListResponses : r.len <= other.size} :
         other' = async_iter_round(other, resp)
    /\ UNCHANGED <<get_vars, cl_vars, it_vars, co_vars, answers, b_vars,
                   r_vars>>

SpecAsync == InitAsync /\ [][AsyncRound]_vars

---------------------------------------------------------------------------
(* Search::iter and SearchAsync::iter called with the same options on the  *)
(* same server.  The blocking call is the collect over the engine, the     *)
(* non-blocking one the loop above; their steps interleave in any order.   *)
(* The server answers every request with a page (empty, full, or one item  *)
(* short of full) and any total, and answers a request for a page the way  *)
(* it answered the same request before.                                    *)

\* a fetch step of the engine under Search::iter
BothFetch ==
    /\ co_pc = "running"
    /\ it_fetches < MaxFetches
    /\ LET req == <<page_size, next_page_number(current_page)>> IN
       \E resp \in {r \in PairResponses(page_size) : r.ok} :
         /\ req \in DOMAIN answers => resp = answers[req]
         /\ next_fetch({resp}, TRUE)
         /\ collect_step(it_out')
         /\ answers' = IF it_fetches' = it_fetches THEN answers
                       ELSE [q \in DOMAIN answers \cup {req} |->
                                IF q = req THEN resp ELSE answers[q]]
    /\ UNCHANGED <<get_vars, cl_vars, other, b_vars, r_vars>>

\* a round of the loop of SearchAsync::iter; its first round starts the
\* call, with the options of the blocking call
BothAsync ==
    LET st == IF other = <<>> THEN async_iter_new(page_size) ELSE other
        req == <<page_size, st.page>>
    IN
    /\ st.pc = "running"
    /\ st.sent < MaxFetches
    /\ \E resp \in {r \in PairResponses(page_size) : r.ok} :
         /\ req \in DOMAIN answers => resp = answers[req]
         /\ other' = async_iter_round(st, resp)
         /\ answers' = [q \in DOMAIN answers \cup {req} |->
                          IF q = req THEN resp ELSE answers[q]]
    /\ UNCHANGED <<get_vars, cl_vars, it_vars, co_vars, b_vars, r_vars>>

SpecBoth ==
    InitCollect
        /\ [][CollectItem \/ CollectFinished \/ BothFetch \/ BothAsync]_vars

---------------------------------------------------------------------------
(* The engine over the request executor: a page fetch is a call of         *)
(* Search::list, which is one logical request of Jobsuche::get with its    *)
(* attempts and sleeps; next() is blocked while the request runs.  When    *)
(* the request returns Ok, its payload is the page the server sent (of at  *)
(* most the size asked for); when it returns Err, fetch_next_page returns  *)
(* that error.  `requests` keeps, per finished request, how it ended and   *)
(* whether an attempt of it was retried.  The client retries not at all or *)
(* once, and the pages carry no total.                                     *)

\* the page requests of one run over the executor
MaxPageFetches == 2

\* a client with retries disabled or with max_retries 0 or 1, and
\* Search::jobs with options that carry a size
InitPaged ==
    /\ InitGet
    /\ max_retries <= 1
    /\ cl_in = NoInput
    /\ cl_sync = NoResult
    /\ cl_async = NoResult
    /\ \E size \in 1..MaxPageSize : JobIterator_new(size)
    /\ NoCollect
    /\ NoPair
    /\ NoBuilder
    /\ NoRefnr

\* Search::list returns what get returned, and fetch_next_page and next()
\* go on with it; the locals of get are gone
PageReturn ==
    /\ pc = "returned"
    /\ \E resp \in IF last.tag = "Ok"
                    THEN {r \in ListResponses :
                            r.ok /\ r.len <= page_size /\ r.total = {}}
                    ELSE Failures :
         next_fetch({resp}, TRUE)
    /\ requests' = Append(requests,
                          [tag |-> last.tag, retried |-> calls > 1])
    /\ pc' = "idle"
    /\ attempt' = 0
    /\ backoff_iter' = NoBackoff
    /\ delay' = 0
    /\ last' = NoResult
    /\ calls' = 0
    /\ sleeps' = 0
    /\ ret' = <<>>
    /\ exit' = "none"
    /\ UNCHANGED <<retry_enabled, max_retries>>
    /\ UNCHANGED <<cl_vars, co_vars, pair_vars, b_vars, r_vars>>

SpecPaged ==
    InitPaged
        /\ [][\/ pc = "idle" /\ LazyItem
              \/ pc = "idle" /\ LazyFinished
              \/ /\ ~page_has_item(current_index, current_page_jobs)
                 /\ ~finished
                 /\ it_fetches < MaxPageFetches
                 /\ GetCall
              \/ GetOnceOnly
              \/ GetAttempt
              \/ Sleep
              \/ PageReturn]_vars

---------------------------------------------------------------------------
(* SearchOptionsBuilder and SearchOptions (src/src/builder.rs).  A string  *)
(* is the sequence of its bytes.  params, a BTreeMap from names to values, *)
(* is the sequence of its entries in the order the map iterates them.      *)

\* the number of calls on builders and on the value built that are followed
MaxCalls == 3

\* the API limit of size
SizeLimit == 100

\* the API limit of veroeffentlichtseit
DaysLimit == 100

\* the names of the parameters, each the bytes of the literal of its setter
key ==
    [was |-> <<119, 97, 115>>,
     wo |-> <<119, 111>>,
     berufsfeld |-> <<98, 101, 114, 117, 102, 115, 102, 101, 108, 100>>,
     page |-> <<112, 97, 103, 101>>,
     size |-> <<115, 105, 122, 101>>,
     arbeitgeber |-> <<97, 114, 98, 101, 105, 116, 103, 101, 98, 101, 114>>,
     veroeffentlichtseit |->
         <<118, 101, 114, 111, 101, 102, 102, 101, 110, 116, 108, 105, 99, 104,
           116, 115, 101, 105, 116>>,
     zeitarbeit |-> <<122, 101, 105, 116, 97, 114, 98, 101, 105, 116>>,
     angebotsart |-> <<97, 110, 103, 101, 98, 111, 116, 115, 97, 114, 116>>,
     befristung |-> <<98, 101, 102, 114, 105, 115, 116, 117, 110, 103>>,
     arbeitszeit |-> <<97, 114, 98, 101, 105, 116, 115, 122, 101, 105, 116>>,
     behinderung |-> <<98, 101, 104, 105, 110, 100, 101, 114, 117, 110, 103>>,
     corona |-> <<99, 111, 114, 111, 110, 97>>,
     umkreis |-> <<117, 109, 107, 114, 101, 105, 115>>]

RECURSIVE BytesLess(_, _)
\* the order of str: byte by byte, a proper prefix first
BytesLess(a, b) ==
    IF b = <<>> THEN FALSE
    ELSE IF a = <<>> THEN TRUE
    ELSE IF a[1] # b[1] THEN a[1] < b[1]
    ELSE BytesLess(Tail(a), Tail(b))

Entry(k, v) == [name |-> k, value |-> v]

\* a map that keeps its entries in the order of their first insertion
insert_at_end(params, k, v) ==
    IF \E i \in 1..Len(params) : params[i].name = k
    THEN [i \in 1..Len(params) |->
             IF params[i].name = k THEN Entry(k, v) ELSE params[i]]
    ELSE Append(params, Entry(k, v))

RECURSIVE insert_keeps_both(_, _, _)
\* a map that keeps the earlier entries of a name beside the new one
insert_keeps_both(params, k, v) ==
    IF params = <<>> THEN <<Entry(k, v)>>
    ELSE IF BytesLess(k, params[1].name) THEN <<Entry(k, v)>> \o params
    ELSE <<params[1]>> \o insert_keeps_both(Tail(params), k, v)

RECURSIVE insert(_, _, _)
\* BTreeMap::insert: the value of an entry of that name is replaced, a new
\* entry goes to its place in the order of the names
insert(params, k, v) ==
    IF params = <<>> THEN <<Entry(k, v)>>
    ELSE IF params[1].name = k THEN <<Entry(k, v)>> \o Tail(params)
    ELSE IF BytesLess(k, params[1].name) THEN <<Entry(k, v)>> \o params
    ELSE <<params[1]>> \o insert(Tail(params), k, v)

\* ASCII letters and digits, and * - . _
IsUnreserved(c) ==
    \/ 48 <= c /\ c <= 57
    \/ 65 <= c /\ c <= 90
    \/ 97 <= c /\ c <= 122
    \/ c \in {42, 45, 46, 95}

\* one hexadecimal digit, in upper case
HexDigit(n) == IF n < 10 THEN 48 + n ELSE 55 + n

\* form_urlencoded on one byte: itself, '+' for a space, or %XX
encode_byte(c) ==
    IF IsUnreserved(c) THEN <<c>>
    ELSE IF c = 32 THEN <<43>>
    ELSE <<37, HexDigit(c \div 16), HexDigit(c % 16)>>

RECURSIVE byte_serialize(_)
\* form_urlencoded::byte_serialize
byte_serialize(s) ==
    IF s = <<>> THEN <<>>
    ELSE encode_byte(s[1]) \o byte_serialize(Tail(s))

\* name=value
append_pair(e) == byte_serialize(e.name) \o <<61>> \o byte_serialize(e.value)

RECURSIVE extend_pairs(_)
\* Serializer::extend_pairs(..).finish(): the pairs in the order of the map,
\* with '&' between them
extend_pairs(params) ==
    IF params = <<>> THEN <<>>
    ELSE IF Len(params) = 1 THEN append_pair(params[1])
    ELSE append_pair(params[1]) \o <<38>> \o extend_pairs(Tail(params))

\* a serialize that encodes an empty map as well
serialize_always_some(params) == {extend_pairs(params)}

\* SearchOptions::serialize, an Option
serialize(params) ==
    IF params = <<>> THEN {} ELSE {extend_pairs(params)}

\* the URL path of the search endpoint, after the host
JobsPath == <<47, 112, 99, 47, 118, 52, 47, 106, 111, 98, 115>>

\* the path Search::list asks Jobsuche::get for
list_path(params) ==
    LET query == serialize(params) IN
    IF query = {} THEN JobsPath
    ELSE JobsPath \o <<63>> \o (CHOOSE q \in query : TRUE)

RECURSIVE to_string(_)
\* u64::to_string: the decimal digits
to_string(n) ==
    IF n < 10 THEN <<48 + n>>
    ELSE to_string(n \div 10) \o <<48 + (n % 10)>>

RECURSIVE parse_decimal(_)
\* str::parse::<u64> of a string of decimal digits
parse_decimal(s) ==
    IF s = <<>> THEN 0
    ELSE 10 * parse_decimal(SubSeq(s, 1, Len(s) - 1)) + (s[Len(s)] - 48)

\* bool::to_string
bool_to_string(x) == IF x THEN <<116, 114, 117, 101>> ELSE <<102, 97, 108, 115, 101>>

\* a setter that stores the number as it was given
capped_not(v, limit) == v

\* s.min(100)
capped(v, limit) == Min(v, limit)

\* Angebotsart::as_str
Angebotsart_as_str(a) ==
    CASE a = "Arbeit" -> <<49>>
      [] a = "Selbstaendigkeit" -> <<50>>
      [] a = "Ausbildung" -> <<52>>
      [] a = "PraktikumTrainee" -> <<51, 52>>

\* Befristung::as_str
Befristung_as_str(t) ==
    CASE t = "Befristet" -> <<49>>
      [] t = "Unbefristet" -> <<50>>

\* Arbeitszeit::as_str
Arbeitszeit_as_str(t) ==
    CASE t = "Vollzeit" -> <<118, 122>>
      [] t = "Teilzeit" -> <<116, 122>>
      [] t = "SchichtNachtarbeitWochenende" -> <<115, 110, 119>>
      [] t = "HeimTelearbeit" -> <<104, 111>>
      [] t = "Minijob" -> <<109, 106>>

RECURSIVE join_without_separator(_, _)
\* the strings one after the other, nothing between them
join_without_separator(strs, sep) ==
    IF strs = <<>> THEN <<>>
    ELSE strs[1] \o join_without_separator(Tail(strs), sep)

RECURSIVE join(_, _)
\* [&str]::join
join(strs, sep) ==
    IF strs = <<>> THEN <<>>
    ELSE IF Len(strs) = 1 THEN strs[1]
    ELSE strs[1] \o sep \o join(Tail(strs), sep)

---------------------------------------------------------------------------
(* The builder in use: setter calls, build, and as_builder on the          *)
(* SearchOptions built.                                                    *)

\* a SearchOptions that is the builder it was built from
built_shares_params(o, newb) == IF o = {} THEN o ELSE {newb}

\* the SearchOptions built owns a clone of the params
built_after_insert(o, newb) == o

\* the ghost b_latest after name k was given value v
Latest(latest, k, v) ==
    [n \in DOMAIN latest \cup {k} |-> IF n = k THEN v ELSE latest[n]]

\* the entries of params as a function from names to values
AsFunction(params) ==
    [n \in {params[i].name : i \in 1..Len(params)} |->
        (CHOOSE e \in {params[i] : i \in 1..Len(params)} : e.name = n).value]

\* BTreeMap::get, an Option
get(params, k) ==
    {params[i].value : i \in {j \in 1..Len(params) : params[j].name = k}}

\* one setter: self.params.insert(k, v); insert hands back the value it
\* replaced, which the setter drops
Assign(op, k, v, arg) ==
    /\ b_count < MaxCalls
    /\ b_params' = insert(b_params, k, v)
    /\ b_latest' = Latest(b_latest, k, v)
    /\ b_count' = b_count + 1
    /\ b_last' = [op |-> op, name |-> k, arg |-> arg,
                  old |-> get(b_params, k), reopened |-> b_last.reopened]
    /\ o_params' = built_after_insert(o_params, b_params')
    /\ UNCHANGED o_snapshot
    /\ UNCHANGED <<get_vars, cl_vars, it_vars, co_vars, pair_vars, r_vars>>

\* job_title: "" or "a b"
was ==
    \E job_title \in {<<>>, <<97, 32, 98>>} :
        Assign("was", key.was, job_title, job_title)

\* location: "B"
wo == \E location \in {<<66>>} : Assign("wo", key.wo, location, location)

\* field: the German word for office, "B\"uro", in UTF-8
berufsfeld ==
    \E field \in {<<66, 195, 188, 114, 111>>} :
        Assign("berufsfeld", key.berufsfeld, field, field)

page == \E p \in {1} : Assign("page", key.page, to_string(p), p)

\* s: numbers below, at and above the API limit
size ==
    \E s \in {SizeLimit - 1, SizeLimit, SizeLimit + 1} :
        Assign("size", key.size, to_string(capped(s, SizeLimit)), s)

\* employer: "A&B"
arbeitgeber ==
    \E employer \in {<<65, 38, 66>>} :
        Assign("arbeitgeber", key.arbeitgeber, employer, employer)

veroeffentlichtseit ==
    \E days \in {0, 10 * DaysLimit} :
        Assign("veroeffentlichtseit", key.veroeffentlichtseit,
               to_string(capped(days, DaysLimit)), days)

zeitarbeit ==
    \E include \in BOOLEAN :
        Assign("zeitarbeit", key.zeitarbeit, bool_to_string(include), include)

angebotsart ==
    \E art \in {"Arbeit", "Selbstaendigkeit", "Ausbildung",
                "PraktikumTrainee"} :
        Assign("angebotsart", key.angebotsart, Angebotsart_as_str(art), art)

\* types.iter().map(|t| t.as_str()).collect::<Vec<_>>().join(";")
befristung ==
    \E types \in {<<>>, <<"Unbefristet", "Befristet">>} :
        Assign("befristung", key.befristung,
               join([i \in 1..Len(types) |-> Befristung_as_str(types[i])],
                    <<59>>),
               types)

\* times.iter().map(|t| t.as_str()).collect::<Vec<_>>().join(";")
arbeitszeit ==
    \E times \in {<<"Vollzeit", "Teilzeit", "HeimTelearbeit">>,
                  <<"SchichtNachtarbeitWochenende", "Minijob">>,
                  <<"Minijob">>} :
        Assign("arbeitszeit", key.arbeitszeit,
               join([i \in 1..Len(times) |-> Arbeitszeit_as_str(times[i])],
                    <<59>>),
               times)

behinderung ==
    \E suitable \in {TRUE} :
        Assign("behinderung", key.behinderung, bool_to_string(suitable),
               suitable)

corona ==
    \E corona_related \in {FALSE} :
        Assign("corona", key.corona, bool_to_string(corona_related),
               corona_related)

umkreis ==
    \E radius_km \in {25} :
        Assign("umkreis", key.umkreis, to_string(radius_km), radius_km)

\* SearchOptionsBuilder::build; the first value built is followed
build ==
    /\ o_params = {}
    /\ b_count < MaxCalls
    /\ b_count' = b_count + 1
    /\ o_params' = {b_params}
    /\ o_snapshot' = {b_params}
    /\ UNCHANGED <<b_params, b_latest, b_last>>
    /\ UNCHANGED <<get_vars, cl_vars, it_vars, co_vars, pair_vars, r_vars>>

\* SearchOptions::as_builder with copy_from: the caller goes on with the
\* builder it hands out
as_builder ==
    /\ b_count < MaxCalls
    /\ b_count' = b_count + 1
    /\ \E o \in o_params :
         /\ b_params' = o
         /\ b_latest' = AsFunction(o)
    /\ b_last' = [op |-> "as_builder", name |-> <<>>, arg |-> <<>>,
                  old |-> {}, reopened |-> TRUE]
    /\ UNCHANGED <<o_params, o_snapshot>>
    /\ UNCHANGED <<get_vars, cl_vars, it_vars, co_vars, pair_vars, r_vars>>

\* SearchOptions::builder()
InitBuilder ==
    /\ NoRequest
    /\ JobIterator_new(0)
    /\ NoCollect
    /\ NoPair
    /\ NoBuilder
    /\ NoRefnr

NextBuilder ==
    \/ was \/ wo \/ berufsfeld \/ page \/ size \/ arbeitgeber
    \/ veroeffentlichtseit \/ zeitarbeit \/ angebotsart \/ befristung
    \/ arbeitszeit \/ behinderung \/ corona \/ umkreis
    \/ build \/ as_builder

SpecBuilder == InitBuilder /\ [][NextBuilder]_vars

---------------------------------------------------------------------------
(* The page requests of one iteration.  Search::jobs is called with        *)
(* options the caller built; each fetch step of the engine makes the       *)
(* options of its page request from them, and the request is kept.  The    *)
(* server answers with any page, with a page of exactly the size asked     *)
(* for, or fails.                                                          *)

\* the page size of an iteration when the options carry none
DefaultPageSize == 50

\* options.size().unwrap_or(50): the stored value parsed, when there is one
\* and it parses
size_or_default(o) ==
    LET parsed == {parse_decimal(v) :
                     v \in {w \in get(o, key.size) :
                              /\ w # <<>>
                              /\ \A i \in 1..Len(w) : w[i] \in 48..57}}
    IN IF parsed = {} THEN DefaultPageSize ELSE CHOOSE n \in parsed : TRUE

\* the page request keeps a page the caller set
page_options_callers_page(o, p, s) ==
    insert(IF get(o, key.page) = {} THEN insert(o, key.page, to_string(p))
           ELSE o,
           key.size, to_string(capped(s, SizeLimit)))

\* self.options.as_builder().page(p).size(s).build(): the params of a copy
\* of the options after the two setters
page_options(o, p, s) ==
    insert(insert(o, key.page, to_string(p)),
           key.size, to_string(capped(s, SizeLimit)))

\* Search::jobs(options): JobIterator::new takes the options as they are;
\* the caller built them with was("a"), wo("b"), page(7) and size(n), or
\* with no setter at all
InitRequest ==
    /\ NoRequest
    /\ \E sizes \in SUBSET {0, 1, 2, 101}, set_page, set_was \in BOOLEAN :
         LET a == IF set_was THEN insert(<<>>, key.was, <<97>>) ELSE <<>>
             b == IF set_page THEN insert(a, key.page, to_string(7)) ELSE a
             c == IF sizes = {} THEN b
                  ELSE insert(b, key.size,
                              to_string(capped(CHOOSE n \in sizes : TRUE,
                                               SizeLimit)))
         IN /\ Cardinality(sizes) <= 1
            /\ set_was => sizes # {}
            /\ o_params = {c}
            /\ o_snapshot = {c}
            /\ b_params = c
            /\ b_latest = AsFunction(c)
            /\ JobIterator_new(size_or_default(c))
    /\ b_count = 0
    /\ b_last = [op |-> "new", name |-> <<>>, arg |-> <<>>, old |-> {},
                 reopened |-> FALSE]
    /\ NoCollect
    /\ NoPair
    /\ NoRefnr

\* a fetch step of the engine: the page request is made from the options
\* the iterator holds and sent, and the server answers
RequestFetch ==
    /\ co_pc = "off"
    /\ it_fetches < MaxFetches
    /\ \E o \in o_params,
          resp \in ListResponses
                     \cup [ok : {TRUE}, len : {page_size}, total : {{}}] :
         /\ next_fetch({resp}, TRUE)
         /\ requests' =
                IF it_fetches' = it_fetches THEN requests
                ELSE Append(requests,
                            page_options(o, next_page_number(current_page),
                                         page_size))
    /\ UNCHANGED <<retry_enabled, max_retries, pc, attempt, backoff_iter,
                   delay, last, calls, sleeps, ret, exit>>
    /\ UNCHANGED <<cl_vars, co_vars, pair_vars, b_vars, r_vars>>

SpecRequest ==
    InitRequest /\ [][LazyItem \/ LazyFinished \/ RequestFetch]_vars

---------------------------------------------------------------------------
(* encode_refnr and decode_refnr (src/src/core.rs): base64 with the        *)
(* standard alphabet and padding, computed on the bytes.                   *)

\* the longest reference number explored, in characters
MaxRefnrLen == 3

\* the reference numbers explored, of the characters ' ', '-', '1', 'S', '~'
Refnrs == UNION {[1..n -> {32, 45, 49, 83, 126}] : n \in 0..MaxRefnrLen}

\* the symbol of a six-bit value: A-Z, a-z, 0-9, '+', '/'
symbol_of(i) ==
    IF i < 26 THEN 65 + i
    ELSE IF i < 52 THEN 71 + i
    ELSE IF i < 62 THEN i - 4
    ELSE IF i = 62 THEN 43
    ELSE 47

\* the six-bit value of a symbol, an Option
value_of(c) ==
    IF 65 <= c /\ c <= 90 THEN {c - 65}
    ELSE IF 97 <= c /\ c <= 122 THEN {c - 71}
    ELSE IF 48 <= c /\ c <= 57 THEN {c + 4}
    ELSE IF c = 43 THEN {62}
    ELSE IF c = 47 THEN {63}
    ELSE {}

RECURSIVE encode_with(_, _)
\* three bytes to four symbols; a last group of one or two bytes to two or
\* three symbols, and pad in the place of each symbol missing
encode_with(bytes, pad) ==
    IF bytes = <<>> THEN <<>>
    ELSE IF Len(bytes) = 1
    THEN <<symbol_of(bytes[1] \div 4), symbol_of((bytes[1] % 4) * 16)>>
             \o pad \o pad
    ELSE IF Len(bytes) = 2
    THEN <<symbol_of(bytes[1] \div 4),
           symbol_of((bytes[1] % 4) * 16 + bytes[2] \div 16),
           symbol_of((bytes[2] % 16) * 4)>> \o pad
    ELSE <<symbol_of(bytes[1] \div 4),
           symbol_of((bytes[1] % 4) * 16 + bytes[2] \div 16),
           symbol_of((bytes[2] % 16) * 4 + bytes[3] \div 64),
           symbol_of(bytes[3] % 64)>>
             \o encode_with(SubSeq(bytes, 4, Len(bytes)), pad)

\* an engine that writes no padding
engine_encode_unpadded(bytes) == encode_with(bytes, <<>>)

\* general_purpose::STANDARD.encode: padding with '='
engine_encode(bytes) == encode_with(bytes, <<61>>)

DecodeOk(bytes) == [tag |-> "Ok", value |-> bytes]

DecodeErr == [tag |-> "Err", value |-> <<>>]

\* the only member of a set of one
The(S) == CHOOSE x \in S : TRUE

RECURSIVE engine_decode(_)
\* general_purpose::STANDARD.decode: groups of four symbols; padding only in
\* the last group, and there required; no bits left over in the last symbol
engine_decode(encoded) ==
    IF encoded = <<>> THEN DecodeOk(<<>>)
    ELSE IF Len(encoded) < 4 THEN DecodeErr
    ELSE
    LET v1 == value_of(encoded[1])
        v2 == value_of(encoded[2])
        v3 == value_of(encoded[3])
        v4 == value_of(encoded[4])
        final == Len(encoded) = 4
        rest == engine_decode(SubSeq(encoded, 5, Len(encoded)))
    IN
    IF v1 = {} \/ v2 = {} THEN DecodeErr
    ELSE IF encoded[3] = 61 /\ encoded[4] = 61
    THEN IF final /\ The(v2) % 16 = 0
         THEN DecodeOk(<<The(v1) * 4 + The(v2) \div 16>>)
         ELSE DecodeErr
    ELSE IF v3 = {} THEN DecodeErr
    ELSE IF encoded[4] = 61
    THEN IF final /\ The(v3) % 4 = 0
         THEN DecodeOk(<<The(v1) * 4 + The(v2) \div 16,
                         (The(v2) % 16) * 16 + The(v3) \div 4>>)
         ELSE DecodeErr
    ELSE IF v4 = {} THEN DecodeErr
    ELSE IF rest.tag = "Err" THEN DecodeErr
    ELSE DecodeOk(<<The(v1) * 4 + The(v2) \div 16,
                    (The(v2) % 16) * 16 + The(v3) \div 4,
                    (The(v3) % 4) * 64 + The(v4)>> \o rest.value)

RECURSIVE from_utf8_lossy(_)
\* String::from_utf8_lossy on bytes with no multi-byte sequence: an ASCII
\* byte stays, any other byte becomes U+FFFD
from_utf8_lossy(bytes) ==
    IF bytes = <<>> THEN <<>>
    ELSE (IF bytes[1] < 128 THEN <<bytes[1]>> ELSE <<239, 191, 189>>)
             \o from_utf8_lossy(Tail(bytes))

\* encode_refnr(refnr): STANDARD.encode(refnr.as_bytes())
encode_refnr(refnr) == engine_encode(refnr)

\* decode_refnr(encoded): STANDARD.decode(encoded)?, then from_utf8_lossy
decode_refnr(encoded) ==
    LET decoded == engine_decode(encoded) IN
    IF decoded.tag = "Err" THEN DecodeErr
    ELSE DecodeOk(from_utf8_lossy(decoded.value))

\* the caller holds a reference number
InitRefnr ==
    /\ NoRequest
    /\ JobIterator_new(0)
    /\ NoCollect
    /\ NoPair
    /\ NoBuilder
    /\ r_in \in Refnrs
    /\ r_enc = {}
    /\ r_dec = {}

\* the caller encodes the reference number
EncodeRefnr ==
    /\ r_enc = {}
    /\ r_enc' = {encode_refnr(r_in)}
    /\ UNCHANGED <<r_in, r_dec>>
    /\ UNCHANGED <<get_vars, cl_vars, it_vars, co_vars, pair_vars, b_vars>>

\* the caller decodes what encode_refnr returned
DecodeRefnr ==
    /\ r_dec = {}
    /\ \E encoded \in r_enc : r_dec' = {decode_refnr(encoded)}
    /\ UNCHANGED <<r_in, r_enc>>
    /\ UNCHANGED <<get_vars, cl_vars, it_vars, co_vars, pair_vars, b_vars>>

NextRefnr == EncodeRefnr \/ DecodeRefnr

SpecRefnr == InitRefnr /\ [][NextRefnr]_vars

---------------------------------------------------------------------------
(* Vocabulary of the properties, stated on responses, not on the code's    *)
(* own decisions.                                                          *)

\* the request is over for the caller
Ended == pc \in {"returned", "panicked"}

\* the request is still running inside get
InFlight == pc \in {"once", "loop", "sleeping"}

\* a transport failure, a 429, or a 503/504: the failures the retry policy
\* names as retryable
TransientFailure(r) ==
    \/ r.cause \in {"refused", "timeout"}
    \/ r.status \in {TOO_MANY_REQUESTS, SERVICE_UNAVAILABLE, GATEWAY_TIMEOUT}

\* a response whose status the retry policy names as never retried
TerminalResponse(r) ==
    /\ r.status # 0
    /\ ~StatusIsSuccess(r.status)
    /\ r.status \notin {TOO_MANY_REQUESTS, SERVICE_UNAVAILABLE, GATEWAY_TIMEOUT}

\* the four statuses with an error kind of their own
KindOfStatus(s) ==
    CASE s = 401 -> "Unauthorized"
      [] s = 403 -> "Forbidden"
      [] s = 404 -> "NotFound"
      [] s = 405 -> "MethodNotAllowed"
      [] OTHER -> "none"

\* a non-2xx status that is none of 401, 403, 404, 405, 429, 503, 504
OtherFaultStatus(s) ==
    /\ s # 0
    /\ ~StatusIsSuccess(s)
    /\ s \notin {401, 403, 404, 405, 429, 503, 504}

\* the i-th delay of the backoff schedule, i >= 1, in closed form
ScheduleDelay(i) == Min(2 ^ (i - 1), 60)

---------------------------------------------------------------------------
(* Properties of the request executor, under Spec. *)

\* C1: for every sequence of per-attempt outcomes the caller observes
\* exactly one result, the payload of the first successful attempt or one
\* terminal error: a request that is over has handed over exactly one
\* result, that of its final attempt; a request still running has handed
\* over nothing and runs on only after a failure that is neither a success
\* nor a terminal error.
C1_ExactlyOneResult ==
    /\ Len(ret) <= 1
    /\ Ended => Len(ret) = 1 /\ ret[1] = last
    /\ InFlight => ret = <<>> /\ last.tag # "Ok" /\ ~TerminalResponse(last)

\* C2: with retries enabled and max_retries = N a request makes at most N+1
\* attempts, and a request that ends on a retryable failure ends on attempt
\* N+1 and returns exactly that attempt's error.
C2_AtMostNPlusOneAttempts ==
    retry_enabled =>
        /\ calls <= max_retries + 1
        /\ attempt = calls
        /\ (pc = "returned" /\ last.tag = "Err" /\ TransientFailure(last)) =>
               /\ calls = max_retries + 1
               /\ ret = <<last>>
               /\ ret[1].at = max_retries + 1

C2_Witness ==
    /\ retry_enabled
    /\ max_retries = 2
    /\ pc = "returned"
    /\ sleeps = 2
    /\ ret # <<>>
    /\ ret[1].status = SERVICE_UNAVAILABLE
    /\ ret[1].at = 3

\* C3: a 401, 403, 404 or 405 response ends the request at once, under
\* every retry configuration: the error of its kind is returned, no sleep
\* follows it, and as the first response it is the only attempt.
C3_TerminalStatuses ==
    last.status \in {401, 403, 404, 405} =>
        /\ pc = "returned"
        /\ ret = <<last>>
        /\ last.tag = "Err"
        /\ last.kind = KindOfStatus(last.status)
        /\ calls = last.at
        /\ sleeps = calls - 1

C3_Witness ==
    /\ retry_enabled
    /\ max_retries = MaxRetriesBound
    /\ last.status = NOT_FOUND
    /\ pc = "returned"
    /\ calls = 1
    /\ sleeps = 0
    /\ ret # <<>>
    /\ ret[1].kind = "NotFound"

\* C4: with retries enabled, a response with a non-2xx status outside
\* {401, 403, 404, 405, 429, 503, 504} is never retried, whatever its body:
\* the request is over with that attempt.
C4_OtherFaultsNeverRetried ==
    (retry_enabled /\ OtherFaultStatus(last.status)) =>
        /\ Ended
        /\ last.at = 1 => calls = 1 /\ sleeps = 0

\* C5: with retry_enabled = false the request is one attempt and no sleep,
\* whatever max_retries is, and the first error is the one returned.
C5_RetryDisabled ==
    ~retry_enabled =>
        /\ pc \in {"idle", "once", "returned", "panicked"}
        /\ calls <= 1
        /\ sleeps = 0
        /\ last.tag = "Err" => pc = "returned" /\ ret = <<last>> /\ last.at = 1

C5_Witness ==
    /\ ~retry_enabled
    /\ max_retries = MaxRetriesBound
    /\ pc = "returned"
    /\ calls = 1
    /\ ret # <<>>
    /\ ret[1].status = SERVICE_UNAVAILABLE

\* C6: with retries enabled, after a retryable failure on attempt
\* k <= max_retries the request goes on to attempt k+1 (it is sleeping or
\* about to send), the exit taken when the backoff iterator is used up is
\* never taken, and a success on any attempt is returned as the success.
C6_NeverGivesUpEarly ==
    retry_enabled =>
        /\ exit # "backoff_none"
        /\ (last.tag = "Err" /\ TransientFailure(last) /\ last.at <= max_retries)
               => pc \in {"sleeping", "loop"}
        /\ last.tag = "Ok" => pc = "returned" /\ ret = <<last>>

C6_Witness ==
    /\ retry_enabled
    /\ max_retries = MaxRetriesBound
    /\ pc = "returned"
    /\ last.tag = "Ok"
    /\ calls = max_retries + 1
    /\ backoff_iter.attempts = max_retries

\* C7: the sleep after a RateLimited failure with retry_after = s is s
\* seconds; after every other retried failure it is the next delay of the
\* backoff schedule, which server-dictated sleeps do not advance.
C7_SleepDuration ==
    pc = "sleeping" =>
        IF last.status = TOO_MANY_REQUESTS /\ last.retry_after # {}
        THEN last.retry_after = {delay}
        ELSE /\ backoff_iter.attempts >= 1
             /\ delay = ScheduleDelay(backoff_iter.attempts)

C7_Witness ==
    /\ pc = "sleeping"
    /\ last.kind = "RateLimited"
    /\ last.retry_after = {2}
    /\ delay = 2
    /\ sleeps = 1
    /\ backoff_iter.attempts = 1

---------------------------------------------------------------------------
(* Properties of the classifiers, under SpecClassify. *)

ErrorKinds ==
    {"Unauthorized", "Forbidden", "NotFound", "MethodNotAllowed",
     "RateLimited", "Fault", "Http"}

\* the classification of response `o` came out as `r`, exactly
ExactMapping(o, r) ==
    IF StatusIsSuccess(o.status)
    THEN r.kind \notin {"Unauthorized", "Forbidden", "NotFound",
                        "MethodNotAllowed", "RateLimited", "Fault"}
    ELSE /\ r.tag = "Err"
         /\ r.kind \in ErrorKinds
         /\ r.kind = "Unauthorized" <=> o.status = 401
         /\ r.kind = "Forbidden" <=> o.status = 403
         /\ r.kind = "NotFound" <=> o.status = 404
         /\ r.kind = "MethodNotAllowed" <=> o.status = 405
         /\ r.kind = "RateLimited" <=> o.status = 429

\* C8: classifying a non-2xx response returns exactly one error kind, with
\* 401, 403, 404, 405 and 429 mapped one-to-one to Unauthorized, Forbidden,
\* NotFound, MethodNotAllowed and RateLimited and no other status mapped to
\* these; a 2xx response gives no classification error.  Both clients.
C8_ExactMapping ==
    cl_in.net = "resp" =>
        /\ cl_sync # NoResult => ExactMapping(cl_in, cl_sync)
        /\ cl_async # NoResult => ExactMapping(cl_in, cl_async)

\* what retry_after is for a 429 with Retry-After header h read at `now`
\* when a date in the past counts as no hint
RetryAfterAmended(h, now, ra) ==
    CASE h.tag = "secs" -> ra = {h.v}
      [] h.tag = "date" /\ h.v * TicksPerSec >= now ->
            \E n \in 0..MaxSecs :
                /\ ra = {n}
                /\ n * TicksPerSec <= h.v * TicksPerSec - now
                /\ h.v * TicksPerSec - now < (n + 1) * TicksPerSec
      [] OTHER -> ra = {}

\* the same with every HTTP date giving a value, as first stated
RetryAfterOriginal(h, now, ra) ==
    /\ h.tag = "secs" => ra = {h.v}
    /\ h.tag = "date" => ra # {}
    /\ ra = {} <=> h.tag \in {"absent", "junk", "opaque"}

\* C9 as first stated: retry_after is the integer of the header, or the
\* seconds until the header's HTTP date, and is absent exactly when the
\* header is missing or parses as neither.
C9_Original ==
    (cl_in.net = "resp" /\ cl_in.status = TOO_MANY_REQUESTS) =>
        /\ cl_sync # NoResult =>
               RetryAfterOriginal(cl_in.header, cl_in.now, cl_sync.retry_after)
        /\ cl_async # NoResult =>
               RetryAfterOriginal(cl_in.header, cl_in.now, cl_async.retry_after)

\* C9, amended: for a 429, retry_after is the integer n of the header; the
\* whole seconds until the header's HTTP date when that date is not in the
\* past; absent when the header is missing, parses as neither, or is an
\* HTTP date in the past.  Both clients.
C9_RetryAfter ==
    (cl_in.net = "resp" /\ cl_in.status = TOO_MANY_REQUESTS) =>
        /\ cl_sync # NoResult =>
               /\ cl_sync.kind = "RateLimited"
               /\ RetryAfterAmended(cl_in.header, cl_in.now, cl_sync.retry_after)
        /\ cl_async # NoResult =>
               /\ cl_async.kind = "RateLimited"
               /\ RetryAfterAmended(cl_in.header, cl_in.now, cl_async.retry_after)

C9_Witness ==
    /\ cl_in.net = "resp"
    /\ cl_in.status = TOO_MANY_REQUESTS
    /\ cl_in.header = [tag |-> "date", v |-> 2]
    /\ cl_in.now = 1
    /\ cl_sync.retry_after = {1}
    /\ cl_async.retry_after = {1}

\* the result for a status with no kind of its own: a Fault with the
\* status, carrying the parsed messages or, for an unparseable body, none
FaultWithStatus(o, r) ==
    /\ r.tag = "Err"
    /\ r.kind = "Fault"
    /\ r.code = o.status
    /\ ParsesAsApiErrors(o.body) =>
           /\ r.errors.errors = ApiErrorsOf(o.body).errors
           /\ r.errors.error_messages = ApiErrorsOf(o.body).error_messages
    /\ ~ParsesAsApiErrors(o.body) =>
           r.errors.errors = <<>> /\ r.errors.error_messages = <<>>

\* C10: for a non-2xx status other than 401, 403, 404, 405 and 429 the
\* caller receives a Fault that preserves the status code, with the parsed
\* messages for a structured error body and with empty message lists for
\* an unparseable body.  Both clients.
C10_FaultPreservesStatus ==
    (/\ cl_in.net = "resp"
     /\ ~StatusIsSuccess(cl_in.status)
     /\ cl_in.status \notin {401, 403, 404, 405, 429}) =>
        /\ cl_sync # NoResult => FaultWithStatus(cl_in, cl_sync)
        /\ cl_async # NoResult => FaultWithStatus(cl_in, cl_async)

---------------------------------------------------------------------------
(* Vocabulary of the pagination properties, stated on the fetch log.       *)

RECURSIVE SumLens(_)
\* the number of items in the pages of a log
SumLens(log) ==
    IF log = <<>> THEN 0 ELSE log[1].len + SumLens(Tail(log))

RECURSIVE ConcatPages(_)
\* the items of the successfully fetched pages of a log, in fetch order
ConcatPages(log) ==
    IF log = <<>> THEN <<>>
    ELSE (IF log[1].ok THEN PageItems(log[1].page, log[1].len) ELSE <<>>)
             \o ConcatPages(Tail(log))

\* every fetch of the log succeeded
NoFetchFailed(log) == \A i \in 1..Len(log) : log[i].ok

\* every page of the log came back with exactly page_size items
AllFull(log) == \A i \in 1..Len(log) : log[i].ok /\ log[i].len = page_size

\* full pages followed by one page with fewer than page_size items
FullThenShort(log) ==
    /\ Len(log) >= 1
    /\ AllFull(SubSeq(log, 1, Len(log) - 1))
    /\ log[Len(log)].ok
    /\ log[Len(log)].len < page_size

IsPrefix(a, b) == Len(a) <= Len(b) /\ a = SubSeq(b, 1, Len(a))

\* the lazy sequence has ended for the caller
Drained == it_out.tag = "None"

---------------------------------------------------------------------------
(* C11: for a page size of at least 1 and a backend that serves full pages *)
(* followed by one short page, with a total that is absent or the real     *)
(* number of items, the engine goes on through the full pages, stops at    *)
(* the short one without a further fetch, and a drained sequence has       *)
(* yielded every item of those pages in server order.                      *)
C11_FullPagesThenShort ==
    page_size >= 1 =>
      /\ (AllFull(it_log)
            /\ (max_results = {} \/ \E t \in max_results : t >= SumLens(it_log)))
           => ~finished
      /\ \A k \in 1..Len(it_log) :
           LET served == SubSeq(it_log, 1, k) IN
           (FullThenShort(served) /\ max_results \in {{}, {SumLens(served)}})
             => /\ Len(it_log) = k
                /\ it_fetches = k
                /\ finished
                /\ IsPrefix(it_yielded, ConcatPages(served))
                /\ (Drained => it_yielded = ConcatPages(served))

\* pages of sizes [2, 2, 0] at page size 2 with the total 4, drained
C11_Witness ==
    /\ page_size = 2
    /\ [i \in 1..Len(it_log) |-> it_log[i].len] = <<2, 2, 0>>
    /\ NoFetchFailed(it_log)
    /\ max_results = {4}
    /\ Drained
    /\ Len(it_yielded) = 4
    /\ it_fetches = 3

\* the page-1 total is known and the items handed out have reached it
TotalReached == \E t \in max_results : total_yielded >= t

---------------------------------------------------------------------------
(* C12: once the first page has reported a total and the number of items   *)
(* yielded has reached it, no step of the engine issues a page fetch or    *)
(* yields an item.                                                         *)
C12_StopsAtReportedTotal ==
    [][TotalReached =>
         (it_fetches' = it_fetches /\ total_yielded' = total_yielded)]_vars

---------------------------------------------------------------------------
(* C13: once a page fetch has failed the engine is finished, the failed    *)
(* fetch is the last one ever issued, and next() has returned the error    *)
(* or, after it, None.                                                     *)
C13_FetchErrorEndsSequence ==
    \A i \in 1..Len(it_log) :
        ~it_log[i].ok =>
            /\ finished
            /\ i = Len(it_log)
            /\ it_out.tag \in {"Err", "None"}

---------------------------------------------------------------------------
(* C14: an iterator issues at most 1000 page fetches, never more than its  *)
(* page counter, and a page counter above 1000 means the engine finished   *)
(* at 1001 without a request for that page.                                *)
C14_SafetyCeiling ==
    /\ it_fetches <= MaxPagesLimit
    /\ it_fetches <= current_page
    /\ current_page > MaxPagesLimit
         => (finished /\ current_page = MaxPagesLimit + 1)

\* 1000 fetches went out and the next demand ended the sequence unsent
C14_Witness ==
    /\ it_fetches = MaxPagesLimit
    /\ current_page = MaxPagesLimit + 1
    /\ finished
    /\ Drained

---------------------------------------------------------------------------
(* C15: a consumer that keeps calling next() eventually receives None,     *)
(* against a server that answers full pages for ever and against one that  *)
(* fails for ever.                                                         *)
C15_Terminates == <>Drained

\* the sequence ended at the safety limit after 1000 failed fetches
C15_Witness ==
    /\ Drained
    /\ it_fetches = MaxPagesLimit
    /\ total_yielded = 0
    /\ page_size >= 1

---------------------------------------------------------------------------
(* Vocabulary of the buffer and demand properties.                         *)

RECURSIVE LastOkPage(_)
\* the items of the most recent successfully fetched page of a log
LastOkPage(log) ==
    IF log = <<>> THEN <<>>
    ELSE IF log[Len(log)].ok
    THEN PageItems(log[Len(log)].page, log[Len(log)].len)
    ELSE LastOkPage(SubSeq(log, 1, Len(log) - 1))

\* k / s rounded up
CeilDiv(k, s) == (k + s - 1) \div s

\* the page numbers requested, in the order of the requests
RequestedPages == [i \in 1..Len(it_log) |-> it_log[i].page]

---------------------------------------------------------------------------
(* C16: the items handed out are a prefix of the concatenation of the      *)
(* successfully fetched pages in fetch order, and what is not handed out   *)
(* yet is exactly the rest of the buffered page, so every earlier page was *)
(* handed out in full before the next one was fetched.                     *)
C16_YieldedIsPrefixOfPages ==
    /\ IsPrefix(it_yielded, ConcatPages(it_log))
    /\ Len(it_yielded) = total_yielded
    /\ Len(ConcatPages(it_log)) - Len(it_yielded)
         = Len(current_page_jobs) - current_index
    /\ current_index <= Len(current_page_jobs)

\* two pages handed out in part: both items of page 1, then one of page 2
C16_Witness ==
    /\ Len(it_log) = 2
    /\ it_log[2].len = 2
    /\ it_yielded = <<<<1, 1>>, <<1, 2>>, <<2, 1>>>>

---------------------------------------------------------------------------
(* C17: the buffer holds exactly the items of the most recent successfully  *)
(* fetched page, and nothing before the first one.                         *)
C17_BufferIsLatestPage ==
    current_page_jobs = LastOkPage(it_log)

\* a second page has replaced the first in the buffer, and a later failed
\* fetch has left it there
C17_Witness ==
    /\ Len(it_log) = 3
    /\ it_log[1].ok /\ it_log[1].len = 2
    /\ it_log[2].ok /\ it_log[2].len = 1
    /\ ~it_log[3].ok
    /\ current_page_jobs = <<<<2, 1>>>>

---------------------------------------------------------------------------
(* C18: no request goes out before the first call of next(); one call of   *)
(* next() issues at most one fetch, and only when the buffered page is     *)
(* used up; with full pages of size s the caller who has k items has       *)
(* caused exactly k/s fetches, rounded up.                                 *)
C18_DemandDriven ==
    /\ [](it_out = NoOutput => it_fetches = 0)
    /\ []((page_size >= 1 /\ AllFull(it_log))
            => it_fetches = CeilDiv(total_yielded, page_size))
    /\ [][it_fetches' # it_fetches
            => (it_fetches' = it_fetches + 1
                  /\ current_index = Len(current_page_jobs))]_vars

\* the caller stopped after 3 items of full pages of size 2: 2 fetches
C18_Witness ==
    /\ page_size = 2
    /\ AllFull(it_log)
    /\ total_yielded = 3
    /\ it_fetches = 2
    /\ ~finished

---------------------------------------------------------------------------
(* C19: the first fetch asks for page 1 and every fetch asks for a page    *)
(* number above all the numbers asked for before.                          *)
C19_PagesStrictlyIncrease ==
    /\ Len(it_log) >= 1 => RequestedPages[1] = 1
    /\ \A i, j \in 1..Len(it_log) :
           i < j => RequestedPages[i] < RequestedPages[j]

\* three fetches, the second one failed: pages 1, 2, 3
C19_Witness ==
    /\ RequestedPages = <<1, 2, 3>>
    /\ ~it_log[2].ok
    /\ it_log[3].ok

---------------------------------------------------------------------------
(* C20: Search::iter returns when the lazy sequence has returned None or   *)
(* its first error.  Without a failed fetch the result is the list of the  *)
(* items the sequence yielded, all items of the fetched pages in order;    *)
(* with a failed fetch the result is the error, the items collected are    *)
(* dropped, and the failed fetch is the last one issued.                   *)
C20_IterIsDrain ==
    /\ co_pc = "running" => (NoFetchFailed(it_log) /\ ~Drained
                               /\ co_vec = it_yielded)
    /\ (co_pc = "done" /\ NoFetchFailed(it_log))
         => /\ Drained
            /\ co_result = OkVec(it_yielded)
            /\ co_result.items = ConcatPages(it_log)
    /\ (co_pc = "done" /\ ~NoFetchFailed(it_log))
         => /\ co_result = ErrResult
            /\ it_out = ErrOut
            /\ \A i \in 1..Len(it_log) : ~it_log[i].ok => i = Len(it_log)

\* the second fetch failed after the two items of page 1 were collected
C20_Witness ==
    /\ co_pc = "done"
    /\ co_result = ErrResult
    /\ Len(it_log) = 2
    /\ Len(it_yielded) = 2
    /\ ~it_log[2].ok

---------------------------------------------------------------------------
(* C21: a request made after another one has returned starts with the      *)
(* attempt counter at zero and an unused backoff schedule, whatever the    *)
(* earlier request consumed: it makes up to max_retries + 1 attempts, ends *)
(* on a retryable failure only with attempt max_retries + 1, and its       *)
(* backoff sleeps start again at the first delay of the schedule.          *)
C21_RetryStatePerRequest ==
    (requests # <<>> /\ retry_enabled) =>
        /\ calls = 0 => (attempt = 0 /\ backoff_iter = build_backoff(max_retries))
        /\ attempt = calls
        /\ calls <= max_retries + 1
        /\ (pc = "returned" /\ last.tag = "Err" /\ TransientFailure(last))
               => calls = max_retries + 1
        /\ (pc = "sleeping"
              /\ ~(last.status = TOO_MANY_REQUESTS /\ last.retry_after # {}))
               => /\ delay <= ScheduleDelay(sleeps + 1)
                  /\ sleeps = 0 => delay = MinDelaySecs

\* the first request used all its attempts, and so did the second
C21_Witness ==
    /\ requests = <<TRUE>>
    /\ retry_enabled
    /\ max_retries = MaxRetriesBound
    /\ pc = "returned"
    /\ last.tag = "Err"
    /\ calls = max_retries + 1
    /\ sleeps = max_retries

---------------------------------------------------------------------------
(* Vocabulary of the pair property.                                        *)

\* what an iterator that runs alone against the answers of the server has
\* asked for and handed out: pages 1, 2, ... of its size, answered as the
\* server answers them, the items of the pages in order, and the fields
\* that follow from the two
RunsAsAlone(it) ==
    /\ \A i \in 1..Len(it.it_log) :
         /\ it.it_log[i].page = i
         /\ <<it.page_size, i>> \in DOMAIN answers
         /\ it.it_log[i].ok = answers[<<it.page_size, i>>].ok
         /\ it.it_log[i].len = answers[<<it.page_size, i>>].len
    /\ it.current_page = Len(it.it_log)
    /\ it.it_fetches = Len(it.it_log)
    /\ IsPrefix(it.it_yielded, ConcatPages(it.it_log))
    /\ it.total_yielded = Len(it.it_yielded)
    /\ it.current_page_jobs = LastOkPage(it.it_log)
    /\ Len(ConcatPages(it.it_log)) - Len(it.it_yielded)
         = Len(it.current_page_jobs) - it.current_index

\* one of the two runs is the other one, stopped earlier
SameRun(a, b) ==
    /\ IsPrefix(a.it_log, b.it_log) \/ IsPrefix(b.it_log, a.it_log)
    /\ IsPrefix(a.it_yielded, b.it_yielded)
         \/ IsPrefix(b.it_yielded, a.it_yielded)
    /\ (a.it_log = b.it_log /\ a.it_yielded = b.it_yielded)
         => /\ a.current_page_jobs = b.current_page_jobs
            /\ a.current_index = b.current_index
            /\ a.finished = b.finished
            /\ a.max_results = b.max_results

---------------------------------------------------------------------------
(* C22: two iterators of one client, called in any interleaving, each ask  *)
(* for the pages and hand out the items they would alone against the same  *)
(* answers of the server; made from the same options, the two runs are    *)
(* one run stopped at two points; a call of next() on one leaves the other *)
(* as it was.                                                              *)
C22_IteratorsIndependent ==
    /\ [](other # <<>> =>
            /\ RunsAsAlone(InHand)
            /\ RunsAsAlone(other)
            /\ SameRun(InHand, other))
    /\ [][other' = other \/ (other' = InHand /\ InHand' = other)]_vars

\* the iterator in hand has handed out three items of two pages while the
\* other one has handed out one
C22_Witness ==
    /\ other # <<>>
    /\ page_size = 2
    /\ it_yielded = <<<<1, 1>>, <<1, 2>>, <<2, 1>>>>
    /\ other.it_yielded = <<<<1, 1>>>>
    /\ other.it_fetches = 1

---------------------------------------------------------------------------
(* Vocabulary of the query properties.                                     *)

RECURSIVE SortedNames(_)
\* the names of a set, least first in the order of str
SortedNames(S) ==
    IF S = {} THEN <<>>
    ELSE LET m == CHOOSE x \in S : \A y \in S \ {x} : BytesLess(x, y)
         IN <<m>> \o SortedNames(S \ {m})

RECURSIVE SplitFrom(_, _, _, _)
\* the pieces of s from position i on, the first one after the bytes of cur
SplitFrom(s, sep, i, cur) ==
    IF i > Len(s) THEN <<cur>>
    ELSE IF s[i] = sep THEN <<cur>> \o SplitFrom(s, sep, i + 1, <<>>)
    ELSE SplitFrom(s, sep, i + 1, Append(cur, s[i]))

\* the pieces of a string between the occurrences of a byte
Split(s, sep) == SplitFrom(s, sep, 1, <<>>)

\* the query that gives every name its latest value, names in order
Canonical(latest) ==
    LET names == SortedNames(DOMAIN latest)
        pair(n) == byte_serialize(n) \o <<61>> \o byte_serialize(latest[n])
    IN join([i \in 1..Len(names) |-> pair(names[i])], <<38>>)

\* the parameter names of a query string, in its order
QueryNames(q) ==
    LET pairs == Split(q, 38)
    IN [i \in 1..Len(pairs) |-> Split(pairs[i], 61)[1]]

\* the values a query string gives to a name, percent-encoded
QueryValues(q, k) ==
    LET pairs == Split(q, 38)
    IN {SubSeq(pairs[i], Len(k) + 2, Len(pairs[i])) :
          i \in {j \in 1..Len(pairs) : Split(pairs[j], 61)[1] = k}}

\* the names of params are in strictly increasing order
NamesAscend(params) ==
    \A i, j \in 1..Len(params) :
        i < j => BytesLess(params[i].name, params[j].name)

\* the call before this state was a setter
SetterCalled == b_last.op \notin {"new", "as_builder"}

---------------------------------------------------------------------------
(* C23: serialize() depends on the latest value of each name only, not on  *)
(* the order of the assignments: it is the query that lists the names in   *)
(* lexicographic order, each with its latest value.                        *)
C23_OrderIndependent ==
    LET out == serialize(b_params) IN
    /\ NamesAscend(b_params)
    /\ out = IF DOMAIN b_latest = {} THEN {} ELSE {Canonical(b_latest)}
    /\ \A q \in out : QueryNames(q) = SortedNames(DOMAIN b_latest)

\* page was assigned last, after was and wo, and comes first:
\* page=1&was=a+b&wo=B
C23_Witness ==
    /\ b_count = 3
    /\ o_params = {}
    /\ b_last.op = "page"
    /\ b_last.old = {}
    /\ serialize(b_params) = {<<112, 97, 103, 101, 61, 49, 38, 119, 97, 115, 61, 97, 43, 98, 38, 119, 111, 61, 66>>}

---------------------------------------------------------------------------
(* C24: the criteria hold one value per assigned name, the value of the    *)
(* latest assignment to it, and the query names no parameter twice.        *)
C24_OneValuePerName ==
    /\ \A i, j \in 1..Len(b_params) :
           b_params[i].name = b_params[j].name => i = j
    /\ {b_params[i].name : i \in 1..Len(b_params)} = DOMAIN b_latest
    /\ \A k \in DOMAIN b_latest : get(b_params, k) = {b_latest[k]}
    /\ SetterCalled =>
         /\ b_last.name \in DOMAIN b_latest
         /\ b_last.op \in {"was", "wo", "berufsfeld", "arbeitgeber"}
              => b_latest[b_last.name] = b_last.arg
    /\ \A q \in serialize(b_params) :
         LET names == QueryNames(q) IN
         \A i, j \in 1..Len(names) : names[i] = names[j] => i = j

\* was("a b") replaced the value "" of an earlier was(""): was=a+b
C24_Witness ==
    /\ b_last.op = "was"
    /\ b_last.old = {<<>>}
    /\ b_last.arg = <<97, 32, 98>>
    /\ serialize(b_params) = {<<119, 97, 115, 61, 97, 43, 98>>}

---------------------------------------------------------------------------
(* C25: size(v) and veroeffentlichtseit(v) store v when v <= 100 and 100   *)
(* when v > 100, and the query carries that value; no stored size or       *)
(* number of days exceeds 100.                                             *)
C25_ClampedAtAssignment ==
    /\ LET out == serialize(b_params) IN
       \A k \in {key.size, key.veroeffentlichtseit} :
         /\ \A v \in get(b_params, k) : parse_decimal(v) <= 100
         /\ \A o \in o_params : \A v \in get(o, k) : parse_decimal(v) <= 100
         /\ \A q \in out : QueryValues(q, k) = get(b_params, k)
    /\ b_last.op \in {"size", "veroeffentlichtseit"} =>
         get(b_params, b_last.name) =
             {IF b_last.arg > 100 THEN <<49, 48, 48>>
              ELSE to_string(b_last.arg)}

\* size(101) stored 100, and the query says size=100
C25_Witness ==
    /\ b_last.op = "size"
    /\ b_last.arg = 101
    /\ serialize(b_params) = {<<115, 105, 122, 101, 61, 49, 48, 48>>}

---------------------------------------------------------------------------
(* C26: the SearchOptions built stays what it was when it was built,       *)
(* whatever is assigned afterwards to the builder it came from or to a     *)
(* builder as_builder() made of it; the builder as_builder() hands out     *)
(* starts with the parameters of the value.                                *)
C26_BuiltValueNeverChanges ==
    /\ [](o_params = o_snapshot)
    /\ []((b_last.op = "as_builder") => o_params = {b_params})
    /\ [][o_params # {} =>
            /\ o_params' = o_params
            /\ \A o \in o_params, n \in o_params' :
                   serialize(n) = serialize(o)]_vars

\* an empty SearchOptions was built, reopened with as_builder(), and the
\* reopened builder was given a parameter
C26_Witness ==
    /\ o_params = {<<>>}
    /\ b_last.reopened
    /\ SetterCalled
    /\ Len(b_params) = 1

---------------------------------------------------------------------------
(* C27: serialize() is None exactly when the builder holds no assignment,  *)
(* and Some of a string that is not empty otherwise, also when the value   *)
(* assigned is empty; the path of the search request has a '?' with the    *)
(* query after it exactly in the second case.                              *)
C27_NoQueryIffNothingAssigned ==
    LET out == serialize(b_params)
        path == list_path(b_params)
    IN
    /\ out = {} <=> DOMAIN b_latest = {}
    /\ b_count = 0 => out = {}
    /\ SetterCalled => out # {}
    /\ \A q \in out : q # <<>>
    /\ out = {} => path = JobsPath
    /\ \A q \in out : path = JobsPath \o <<63>> \o q /\ Len(path) > Len(JobsPath) + 1
    /\ \A o \in o_params : (list_path(o) = JobsPath) <=> (o = <<>>)

\* was("") alone: the query is was=
C27_Witness ==
    /\ b_last.op = "was"
    /\ b_last.arg = <<>>
    /\ Len(b_params) = 1
    /\ list_path(b_params) = <<47, 112, 99, 47, 118, 52, 47, 106, 111, 98, 115, 63, 119, 97, 115, 61>>

---------------------------------------------------------------------------
(* C29: angebotsart stores 1, 2, 4 or 34; befristung and arbeitszeit store *)
(* the strings of the table for the members of the list, in the order of   *)
(* the list, with ';' between them: 1 and 2 for Befristung, vz, tz, snw,   *)
(* ho and mj for Arbeitszeit.                                              *)
C29_StringTables ==
    LET stored == get(b_params, b_last.name)
        table == [Arbeit |-> <<49>>, Selbstaendigkeit |-> <<50>>,
                  Ausbildung |-> <<52>>, PraktikumTrainee |-> <<51, 52>>,
                  Befristet |-> <<49>>, Unbefristet |-> <<50>>,
                  Vollzeit |-> <<118, 122>>, Teilzeit |-> <<116, 122>>,
                  SchichtNachtarbeitWochenende |-> <<115, 110, 119>>,
                  HeimTelearbeit |-> <<104, 111>>, Minijob |-> <<109, 106>>]
        mapped(list) == [i \in 1..Len(list) |-> table[list[i]]]
    IN
    /\ b_last.op = "angebotsart" => stored = {table[b_last.arg]}
    /\ b_last.op \in {"befristung", "arbeitszeit"} =>
         \A v \in stored :
             IF b_last.arg = <<>> THEN v = <<>>
             ELSE Split(v, 59) = mapped(b_last.arg)
    /\ b_last.op \in {"befristung", "arbeitszeit"} => stored # {}

\* arbeitszeit([Vollzeit, Teilzeit, HeimTelearbeit]) stored vz;tz;ho
C29_Witness ==
    /\ b_last.op = "arbeitszeit"
    /\ b_last.arg = <<"Vollzeit", "Teilzeit", "HeimTelearbeit">>
    /\ get(b_params, key.arbeitszeit) = {<<118, 122, 59, 116, 122, 59, 104, 111>>}

---------------------------------------------------------------------------
(* Vocabulary of the reference-number property.                            *)

\* the characters of a string are printable ASCII
IsPrintableAscii(str) == \A i \in 1..Len(str) : 32 <= str[i] /\ str[i] <= 126

RECURSIVE PadLen(_)
\* the number of '=' at the end of a string
PadLen(str) ==
    IF str = <<>> \/ str[Len(str)] # 61 THEN 0
    ELSE 1 + PadLen(SubSeq(str, 1, Len(str) - 1))

\* A-Z, a-z, 0-9, '+' and '/'
StandardAlphabet == (65..90) \cup (97..122) \cup (48..57) \cup {43, 47}

---------------------------------------------------------------------------
---------------------------------------------------------------------------
(* C30: once finished is set it stays set and no page is fetched any more: *)
(* a call of next() then hands out the next item of the buffered page, and *)
(* when that page is used up it returns None, every time.                  *)
C30_FinishedIsTerminal ==
    [][finished =>
         /\ finished'
         /\ it_fetches' = it_fetches
         /\ it_log' = it_log
         /\ current_page' = current_page
         /\ current_page_jobs' = current_page_jobs
         /\ IF current_index < Len(current_page_jobs)
            THEN /\ it_out' = ItemOut(current_page_jobs[current_index + 1])
                 /\ current_index' = current_index + 1
            ELSE /\ it_out' = NoneOut
                 /\ it_yielded' = it_yielded]_vars

\* the first page set finished and brought two items; both were handed out
\* after that, and the call after them returned None
C30_Witness ==
    /\ finished
    /\ it_fetches = 1
    /\ max_results = {0}
    /\ it_yielded = <<<<1, 1>>, <<1, 2>>>>
    /\ it_out = NoneOut

---------------------------------------------------------------------------
(* C32: within one logical request sleeps happen only between two          *)
(* attempts: a sleep starts only after an attempt that failed and whose    *)
(* error is not handed to the caller, the step after a sleep is the next   *)
(* attempt, an attempt is made only when every earlier attempt has been    *)
(* followed by its sleep, and a request that is over has slept once less   *)
(* than it has attempted.                                                  *)
C32_SleepsOnlyBetweenAttempts ==
    /\ [](pc = "sleeping" =>
            /\ last.tag = "Err"
            /\ ret = <<>>
            /\ sleeps = calls - 1)
    /\ [](pc = "loop" => sleeps = calls /\ ret = <<>>)
    /\ [](Ended => sleeps = calls - 1)
    /\ [](pc = "returned" => ret = <<last>>)
    /\ [][sleeps' # sleeps =>
            /\ pc = "sleeping"
            /\ sleeps' = sleeps + 1
            /\ calls' = calls
            /\ pc' = "loop"]_vars
    /\ [][calls' # calls =>
            /\ calls' = calls + 1
            /\ sleeps' = sleeps
            /\ sleeps = calls]_vars

\* three attempts with a sleep after the first and after the second; the
\* third succeeded and nothing was slept after it
C32_Witness ==
    /\ pc = "returned"
    /\ calls = 3
    /\ sleeps = 2
    /\ last.tag = "Ok"
    /\ last.at = 3
    /\ ret = <<last>>

---------------------------------------------------------------------------
---------------------------------------------------------------------------
(* C38: the blocking and the non-blocking classifier agree: for every      *)
(* response with a non-2xx status, whatever its Retry-After header and its *)
(* body, both return the same error kind with the same status code and the *)
(* same retry_after.                                                       *)
C38_ClassifiersAgree ==
    (/\ cl_in.net = "resp"
     /\ ~StatusIsSuccess(cl_in.status)
     /\ cl_sync # NoResult
     /\ cl_async # NoResult) =>
        /\ cl_sync.tag = cl_async.tag
        /\ cl_sync.kind = cl_async.kind
        /\ cl_sync.code = cl_async.code
        /\ cl_sync.retry_after = cl_async.retry_after

---------------------------------------------------------------------------
(* C34: the end of the sequence is sticky, for every page size: once a     *)
(* call of next() has returned None, every later call returns None and no  *)
(* page is fetched any more.                                               *)
C34_EndIsSticky ==
    [][it_out = NoneOut =>
         /\ it_out' = NoneOut
         /\ it_fetches' = it_fetches
         /\ it_log' = it_log]_vars

---------------------------------------------------------------------------
(* C36: the cursor invariants of a JobIterator hold in every reachable     *)
(* state: the index into the buffered page never exceeds the buffer        *)
(* length; total_yielded grows by one with every Ok item returned and in   *)
(* no other step; the page counter grows by one with every fetch step and  *)
(* in no other step, is one ahead of the requests sent only when the       *)
(* safety limit stopped the last fetch step, and never exceeds 1001; the   *)
(* stored total is the one page 1 reported (none when page 1 failed or has *)
(* not been fetched) and no later page changes it.                         *)
C36_CursorInvariants ==
    /\ [](current_index <= Len(current_page_jobs))
    /\ [][total_yielded' =
             IF it_out'.tag = "Item" THEN total_yielded + 1
             ELSE total_yielded]_vars
    /\ [][current_page' =
             IF ~page_has_item(current_index, current_page_jobs) /\ ~finished
             THEN current_page + 1 ELSE current_page]_vars
    /\ [](it_fetches = Min(current_page, MaxPagesLimit))
    /\ [](current_page <= 1001)
    /\ [](max_results =
             IF current_page >= 1 /\ answers[<<page_size, 1>>].ok
             THEN answers[<<page_size, 1>>].total ELSE {})
    /\ [][current_page >= 1 => max_results' = max_results]_vars

\* page size 0: page 1 reported the total MaxTotal, a thousand empty pages
\* were fetched, the fetch step after them was stopped by the safety limit,
\* and the stored total is still that of page 1
C36_Witness ==
    /\ page_size = 0
    /\ current_page = 1001
    /\ it_fetches = 1000
    /\ finished
    /\ total_yielded = 0
    /\ max_results = {MaxTotal}
    /\ answers[<<0, 1>>].total = {MaxTotal}

---------------------------------------------------------------------------
(* C35: every page request of an iteration carries the caller's search     *)
(* criteria with only page and size overwritten: the i-th request carries  *)
(* page = i, the engine's page counter, whatever page the caller set; its  *)
(* size is the page size of the iteration, the caller's size or 50 when    *)
(* none was set, the same for all pages; every other name has the value    *)
(* the caller gave it and no other name is added; and the options the      *)
(* iterator holds are the ones the caller passed, in every state.          *)
C35_OnlyPageAndSizeOverwritten ==
    LET o == CHOOSE c \in o_snapshot : TRUE
        names(params) == {params[i].name : i \in 1..Len(params)}
    IN
    /\ o_params = o_snapshot
    /\ page_size = IF get(o, key.size) = {} THEN 50
                   ELSE parse_decimal(CHOOSE v \in get(o, key.size) : TRUE)
    /\ Len(requests) = it_fetches
    /\ Len(requests) = Len(it_log)
    /\ \A i \in 1..Len(requests) :
         /\ it_log[i].page = i
         /\ get(requests[i], key.page) = {to_string(i)}
         /\ get(requests[i], key.size) = {to_string(page_size)}
         /\ names(requests[i]) = names(o) \cup {key.page, key.size}
         /\ \A k \in names(o) \ {key.page, key.size} :
              get(requests[i], k) = get(o, k)
         /\ NamesAscend(requests[i])

\* the caller set was=a, page=7 and size=2; the third page request went out
\* as page=3&size=2&was=a while the options still say page=7
C35_Witness ==
    /\ o_params = {<<Entry(key.page, <<55>>), Entry(key.size, <<50>>),
                     Entry(key.was, <<97>>)>>}
    /\ Len(requests) = 3
    /\ requests[3] = <<Entry(key.page, <<51>>), Entry(key.size, <<50>>),
                       Entry(key.was, <<97>>)>>
    /\ list_path(requests[3]) =
           JobsPath \o <<63>> \o <<112, 97, 103, 101, 61, 51, 38>>
               \o <<115, 105, 122, 101, 61, 50, 38>> \o <<119, 97, 115, 61, 97>>

\* the items collected reach the total of the page just answered
AsyncReached(st) == \E max \in st.resp.total : Len(st.all_jobs) >= max

\* the page just answered is shorter than the page size
AsyncShort(st) == st.resp.len < st.size

---------------------------------------------------------------------------
(* C39: SearchAsync::iter requests pages 1, 2, 3, ... consecutively and    *)
(* sends at most 1000 page requests; it goes on after an answer only when  *)
(* the page was not shorter than the page size and the items collected are *)
(* fewer than the total that page reported; it ends with Ok of the items   *)
(* collected after the first short page, once the collected items reach    *)
(* the total of the page just fetched, or after the 1000th page; after a   *)
(* failed fetch it ends with the error; and once it has ended it sends     *)
(* nothing.                                                                *)
C39_AsyncIterRequests ==
    /\ [](other.sent <= 1000)
    /\ [](other.pc = "running" =>
            /\ other.page = other.sent + 1
            /\ other.sent >= 1 =>
                   /\ other.resp.ok
                   /\ ~AsyncShort(other)
                   /\ ~AsyncReached(other)
                   /\ other.sent < 1000)
    /\ [](other.pc = "done" =>
            /\ other.sent >= 1
            /\ IF ~other.resp.ok THEN other.result = ErrResult
               ELSE /\ other.result = OkVec(other.all_jobs)
                    /\ AsyncShort(other) \/ AsyncReached(other) \/ other.sent = 1000)
    /\ [][other.sent' # other.sent =>
            /\ other.pc = "running"
            /\ other.sent' = other.sent + 1
            /\ other.page = other.sent'
            /\ other'.resp.ok =>
                   other'.all_jobs =
                       other.all_jobs \o PageItems(other.page, other'.resp.len)]_vars
    /\ [][other.pc = "done" => other' = other]_vars

\* page size 1, no page reported a total the collected items reached: the
\* loop ended after the answer to page 1000 with the thousand items
C39_Witness ==
    /\ other.size = 1
    /\ other.pc = "done"
    /\ other.sent = 1000
    /\ other.page = 1001
    /\ other.resp.ok
    /\ other.resp.len = 1
    /\ other.resp.total = {}
    /\ other.result.tag = "Ok"
    /\ Len(other.result.items) = 1000

---------------------------------------------------------------------------
(* C37: the blocking and the non-blocking collect-all agree: when          *)
(* Search::iter and SearchAsync::iter, called with the same options on a   *)
(* server that answers every page request successfully, have both          *)
(* returned, they have returned the same list of items.                    *)
C37_CollectAllAgree ==
    (/\ co_pc = "done"
     /\ other # <<>>
     /\ other.pc = "done") =>
        /\ co_result.tag = "Ok"
        /\ other.result.tag = "Ok"
        /\ co_result.items = other.result.items

---------------------------------------------------------------------------
(* C31: failures retried inside a page fetch are invisible to the consumer *)
(* of the lazy sequence.  Every finished page request is one entry of the  *)
(* fetch log, a page when the request returned Ok, after however many      *)
(* attempts, and a failed fetch when it returned Err; the items yielded    *)
(* are the items of the pages of the log, in order, and nothing is yielded *)
(* while a request runs; next() returns an Err element only in the step in *)
(* which a request that ended with an error returns; and a request ends    *)
(* with a transient failure as its error only without retries or on        *)
(* attempt max_retries + 1.                                                *)
C31_RetriesInvisible ==
    /\ [](Len(requests) = Len(it_log))
    /\ [](\A i \in 1..Len(requests) :
            it_log[i].ok <=> requests[i].tag = "Ok")
    /\ []((pc = "returned" /\ last.tag = "Err" /\ TransientFailure(last)) =>
            (~retry_enabled \/ calls = max_retries + 1))
    /\ [](IsPrefix(it_yielded, ConcatPages(it_log)))
    /\ [](current_page_jobs = LastOkPage(it_log))
    /\ [][it_yielded' # it_yielded => pc = "idle" \/ (pc = "returned" /\ last.tag = "Ok")]_vars
    /\ [][(it_out'.tag = "Err" /\ it_log' # it_log) =>
            (pc = "returned" /\ last.tag = "Err")]_vars
    /\ [][(pc = "returned" /\ pc' = "idle") =>
            it_out'.tag = IF last.tag = "Err" THEN "Err"
                          ELSE IF current_page_jobs' = <<>> THEN "None"
                          ELSE "Item"]_vars

\* page 1 came after a failed first attempt and a sleep, page 2 at once;
\* the consumer has the two items of page 1 and the first of page 2
C31_Witness ==
    /\ page_size = 2
    /\ Len(requests) = 2
    /\ requests[1] = [tag |-> "Ok", retried |-> TRUE]
    /\ requests[2] = [tag |-> "Ok", retried |-> FALSE]
    /\ it_yielded = <<<<1, 1>>, <<1, 2>>, <<2, 1>>>>
    /\ it_out = ItemOut(<<2, 1>>)

====
